---- MODULE Spec2Model ----
(***************************************************************************)
(* Model of the Finora client's expense categorisation component.          *)
(*                                                                         *)
(* The repository holds two versions of the ExpenseCategories component:   *)
(*   "pages" : src/client/src/pages/ExpenseCategories.tsx                  *)
(*   "tiles" : src/unnamed/part_002 (tile view with a drill-down list)     *)
(* The variable `component` says which of the two is mounted.              *)
(*                                                                         *)
(* Numbers: amounts are integers; a confidence c in [0,1] is held as the   *)
(* integer 100*c; a JavaScript number that results from a division is held *)
(* as a record [kind, n, d] (an exact fraction n/d, NaN, or +/-Infinity).  *)
(***************************************************************************)
EXTENDS Integers, Sequences, FiniteSets

VARIABLES
    component,                \* which version of the component is mounted
    transactions,             \* useState<Transaction[]>
    categories,               \* useState<CategorySummary[]>
    loading,                  \* useState(false)
    editingTransaction,       \* useState<string | null>: an id, or 0 for null
    selectedCategory,         \* useState<string>('')
    filterCategory,           \* pages: useState<string>('all')
    viewMode,                 \* tiles: useState<'tiles' | 'transactions'>
    selectedCategoryForView,  \* tiles: useState<string>('')
    sortBy,                   \* useState<...>('date')
    serverStatus,             \* store: serverStatus (set = FALSE is null)
    analyses,                 \* analyzeExpenses() calls in flight
    updates,                  \* updateTransactionCategory() calls in flight
    store,                    \* the server's transaction store
    toast,                    \* the toast shown last, or ""
    budget,                   \* requests the session may still send
    sumIn,                    \* argument of a direct call of the summary
    sumOut,                   \* its result, once computed
    documents,                \* store: documents
    isUploading,              \* store: isUploading
    uploadProgress,           \* store: uploadProgress
    searchResults,            \* store: searchResults
    isSearching,              \* store: isSearching
    searchQuery,              \* store: searchQuery
    messages,                 \* store: messages
    isTyping,                 \* store: isTyping
    responseLength,           \* store: responseLength
    isClearing,               \* StatusBar: useState(false)
    url,                      \* DocumentUpload: useState('')
    query,                    \* SearchInterface: useState('')
    limit,                    \* SearchInterface: useState(5)
    message,                  \* ChatInterface: useState('')
    clears,                   \* handleClearDatabase calls under way
    uploads,                  \* handleFileUpload / handleUrlUpload calls under way
    searches,                 \* handleSearch calls under way
    chats,                    \* handleSendMessage calls under way
    timers,                   \* pending setTimeout(() => setUploadProgress(0))
    confirmAnswer,            \* what window.confirm answered last, or "none"
    nextDocument,             \* the document id the server gives out next
    index,                    \* the server's Vector Index
    history,                  \* the chunks added to it since the last clear
    assembly,                 \* a call of the server's Retrieval Assembler
    statement,                \* the statement rows the server extracted from
    polls                     \* getStatus calls of the StatusBar's interval under way

\* the state of the store's document, search and chat slices, of the
\* StatusBar and of the upload, search and chat pages
appVars == <<documents, isUploading, uploadProgress, searchResults,
             isSearching, searchQuery, messages, isTyping, responseLength,
             isClearing, url, query, limit, message, clears, uploads,
             searches, chats, timers, confirmAnswer, nextDocument, index,
             history, assembly, statement, polls>>

\* the state of the expense categories page
expenseVars == <<component, transactions, categories, loading,
                 editingTransaction, selectedCategory, filterCategory,
                 viewMode, selectedCategoryForView, sortBy, analyses,
                 updates, store, sumIn, sumOut>>

vars == <<component, transactions, categories, loading, editingTransaction,
          selectedCategory, filterCategory, viewMode, selectedCategoryForView,
          sortBy, serverStatus, analyses, updates, store, toast, budget,
          sumIn, sumOut, appVars>>

(***************************************************************************)
(* Constants of the program                                                *)
(***************************************************************************)

\* Object.keys(CATEGORY_COLORS): the fixed category enum
Categories ==
    {"Food & Dining", "Transportation", "Shopping", "Bills & Utilities",
     "Healthcare", "Entertainment", "Travel", "Income", "Transfers",
     "Miscellaneous"}

\* t.confidence < 0.7, as 100 * 0.7
ReviewThreshold == 70

Components == {"pages", "tiles"}

(***************************************************************************)
(* JavaScript numbers produced by a division                               *)
(***************************************************************************)

Abs(x) == IF x < 0 THEN -x ELSE x

RECURSIVE Gcd(_, _)
Gcd(a, b) == IF b = 0 THEN a ELSE Gcd(b, a % b)

Num(n) == [kind |-> "num", n |-> n, d |-> 1]

\* the exact fraction n/d, d # 0, in lowest terms with a positive denominator
Frac(n, d) ==
    LET g == Gcd(Abs(n), Abs(d))
        s == IF d < 0 THEN -1 ELSE 1
    IN  [kind |-> "num", n |-> (s * n) \div g, d |-> (s * d) \div g]

\* (a / b) * 100 on JavaScript numbers: 0/0 is NaN, x/0 is +/-Infinity
JsPercent(a, b) ==
    IF b # 0 THEN Frac(a * 100, b)
    ELSE IF a = 0 THEN [kind |-> "NaN", n |-> 0, d |-> 0]
    ELSE IF a > 0 THEN [kind |-> "Infinity", n |-> 1, d |-> 0]
    ELSE [kind |-> "Infinity", n |-> -1, d |-> 0]

(***************************************************************************)
(* Array.prototype.sort: a stable sort under a comparator                  *)
(***************************************************************************)

\* the comparators of the source, by name; < 0 puts a first
Compare(key, a, b) ==
    CASE key = "total"      -> b.total - a.total
      [] key = "amount"     -> b.amount - a.amount
      [] key = "confidence" -> b.confidence - a.confidence
      [] key = "date"       -> b.date - a.date
      [] OTHER              -> 0

\* x goes before the first element that must come after it
RECURSIVE InsertSorted(_, _, _)
InsertSorted(key, s, x) ==
    IF s = <<>> THEN <<x>>
    ELSE IF Compare(key, x, Head(s)) < 0 THEN <<x>> \o s
    ELSE <<Head(s)>> \o InsertSorted(key, Tail(s), x)

RECURSIVE StableSort(_, _)
StableSort(key, s) ==
    IF s = <<>> THEN <<>>
    ELSE InsertSorted(key, StableSort(key, SubSeq(s, 1, Len(s) - 1)), s[Len(s)])

(***************************************************************************)
(* calculateCategorySummary                                                *)
(***************************************************************************)

\* Map.get(name) || { total: 0, count: 0 }, then Map.set: a new key goes last
MapAdd(m, name, amount) ==
    IF \E i \in 1..Len(m) : m[i].name = name
    THEN [i \in 1..Len(m) |->
            IF m[i].name = name
            THEN [m[i] EXCEPT !.total = @ + amount, !.count = @ + 1]
            ELSE m[i]]
    ELSE Append(m, [name |-> name, total |-> amount, count |-> 1])

\* pages: transactions.forEach over the debit transactions, Math.abs(amount)
RECURSIVE DebitMap(_)
DebitMap(txs) ==
    IF txs = <<>> THEN <<>>
    ELSE LET m == DebitMap(SubSeq(txs, 1, Len(txs) - 1))
             t == txs[Len(txs)]
         IN  IF t.type = "debit" THEN MapAdd(m, t.category, Abs(t.amount)) ELSE m

\* tiles: transactions.forEach over every transaction, the signed amount
RECURSIVE AllMap(_)
AllMap(txs) ==
    IF txs = <<>> THEN <<>>
    ELSE LET m == AllMap(SubSeq(txs, 1, Len(txs) - 1))
             t == txs[Len(txs)]
         IN  MapAdd(m, t.category, t.amount)

\* transactions.reduce((sum, t) => sum + t.amount, 0)
RECURSIVE SumAmounts(_)
SumAmounts(txs) ==
    IF txs = <<>> THEN 0 ELSE txs[1].amount + SumAmounts(Tail(txs))

\* pages version: no percentage field
calculateCategorySummary(txs) ==
    StableSort("total", DebitMap(txs))

\* tiles version: percentage: totalAmount > 0 ? (total / totalAmount) * 100 : 0
calculateCategorySummaryTiles(txs) ==
    LET totalAmount == SumAmounts(txs)
        m == AllMap(txs)
        withPct == [i \in 1..Len(m) |->
            [name |-> m[i].name, total |-> m[i].total, count |-> m[i].count,
             percentage |-> IF totalAmount > 0
                            THEN JsPercent(m[i].total, totalAmount)
                            ELSE Num(0)]]
    IN  StableSort("total", withPct)

Summary(comp, txs) ==
    IF comp = "pages" THEN calculateCategorySummary(txs)
    ELSE calculateCategorySummaryTiles(txs)

\* categories.reduce((sum, cat) => sum + cat.total, 0)
RECURSIVE totalExpenses(_)
totalExpenses(cats) ==
    IF cats = <<>> THEN 0 ELSE cats[1].total + totalExpenses(Tail(cats))

\* pages, category tile: width: `${(category.total / totalExpenses) * 100}%`
TileBarWidth(cats, i) == JsPercent(cats[i].total, totalExpenses(cats))

(***************************************************************************)
(* Bounds and input domains                                                *)
(***************************************************************************)

\* longest transaction list an analysis returns
MaxTx == 2

\* most requests (analyses and updates together) sent in one session
MaxRequests == 2

\* longest list handed to a direct call of the summary
MaxLen == 3

\* a category string outside the enum (README: "... Transfers, Others")
OtherCategory == "Others"

\* rows an analysis may return; the id is the position in the list
Rows ==
    { [date |-> 1, description |-> "Netflix", amount |-> 100, type |-> "debit",
       category |-> "Miscellaneous", confidence |-> 0],
      [date |-> 2, description |-> "Netflix", amount |-> 200, type |-> "debit",
       category |-> OtherCategory, confidence |-> 50] }

WithIds(rows) ==
    [i \in 1..Len(rows) |->
        [id |-> i, date |-> rows[i].date, description |-> rows[i].description,
         amount |-> rows[i].amount, type |-> rows[i].type,
         category |-> rows[i].category, confidence |-> rows[i].confidence]]

SeqsUpTo(S, n) == UNION { [1..k -> S] : k \in 0..n }

\* data.transactions of an analysis response
Statements == { WithIds(rows) : rows \in SeqsUpTo(Rows, MaxTx) }

\* options the user picks in the editor's select, besides ''
Picks == {"Shopping"}

\* options the user picks in the pages filter select
Filters == {"all", "Miscellaneous"}

\* chunk counts a status poll reports
ChunkCounts == {0, 1}

NullStatus == [set |-> FALSE, chunk_count |-> 0]

NoResult == [done |-> FALSE, pages |-> <<>>, tiles |-> <<>>]

(***************************************************************************)
(* Rendering                                                               *)
(***************************************************************************)

\* pages getFilteredTransactions, called on every render: with the filter
\* 'all', `filtered` is the state array itself and .sort() sorts it in place
PagesRender(txs, filter, key) ==
    IF filter = "all" THEN StableSort(key, txs) ELSE txs

Render(comp, txs, filter, key) ==
    IF comp = "pages" THEN PagesRender(txs, filter, key) ELSE txs

\* if (serverStatus?.chunk_count === 0) return <No Documents Uploaded>
UiShown == ~(serverStatus.set /\ serverStatus.chunk_count = 0)

\* the rows of the transaction list on screen
filteredTransactions ==
    IF component = "pages"
    THEN SelectSeq(transactions,
                   LAMBDA t : filterCategory = "all" \/ t.category = filterCategory)
    ELSE SelectSeq(transactions,
                   LAMBDA t : ~(viewMode = "transactions" /\ selectedCategoryForView # "")
                              \/ t.category = selectedCategoryForView)

\* the list is rendered: not loading, and in tiles only in the drill-down view
ListShown ==
    /\ UiShown
    /\ ~loading
    /\ component = "tiles" => viewMode = "transactions"

RowShown(id) ==
    /\ ListShown
    /\ \E i \in 1..Len(filteredTransactions) : filteredTransactions[i].id = id

\* pages: transactions.filter(t => Miscellaneous || confidence < 0.7)
unclassifiedTransactions ==
    SelectSeq(transactions,
              LAMBDA t : t.category = "Miscellaneous" \/ t.confidence < ReviewThreshold)

\* tiles: filteredTransactions.filter(t => t.category === 'Miscellaneous')
filteredMiscellaneous ==
    SelectSeq(filteredTransactions, LAMBDA t : t.category = "Miscellaneous")

\* the number on the "Need Review" card
NeedReviewCard ==
    IF component = "pages" THEN Len(unclassifiedTransactions)
    ELSE Len(filteredMiscellaneous)

\* the number on the "Classified" card
ClassifiedCard == Len(transactions) - NeedReviewCard

(***************************************************************************)
(* Requests in flight                                                      *)
(***************************************************************************)

Remove(s, i) == SubSeq(s, 1, i - 1) \o SubSeq(s, i + 1, Len(s))

HasId(txs, id) == \E k \in 1..Len(txs) : txs[k].id = id

TxOf(txs, id) == txs[CHOOSE k \in 1..Len(txs) : txs[k].id = id]

\* the transactions the store holds as overridden with no override under way:
\* what an analysis sent now is bound to return for them
Frozen ==
    LET ids == { k \in 1..Len(store) :
                   /\ store[k].manuallyOverridden
                   /\ \A u \in 1..Len(updates) : updates[u].id # store[k].id }
    IN  { <<store[k].id, store[k].category>> : k \in ids }

(***************************************************************************)
(* loadExpenseAnalysis                                                     *)
(***************************************************************************)

\* setLoading(true); const data = await analyzeExpenses()
LoadStart ==
    /\ budget > 0
    /\ budget' = budget - 1
    /\ loading' = TRUE
    /\ analyses' = Append(analyses,
                          [stage |-> "sent", data |-> <<>>, after |-> Frozen])

\* a success branch that summarizes the list held before the response
LoadDoneStaleSummary(i, data) ==
    /\ transactions' = Render(component, data, filterCategory, sortBy)
    /\ categories' = Summary(component, transactions)
    /\ toast' = "Expense analysis loaded successfully"
    /\ loading' = FALSE
    /\ analyses' = Remove(analyses, i)
    /\ UNCHANGED <<component, editingTransaction, selectedCategory,
                   filterCategory, viewMode, selectedCategoryForView, sortBy,
                   serverStatus, updates, store, budget, sumIn, sumOut, appVars>>

\* setTransactions(data.transactions || []); setCategories(...); finally
LoadDone(i, data) ==
    /\ transactions' = Render(component, data, filterCategory, sortBy)
    /\ categories' = Summary(component, data)
    /\ toast' = "Expense analysis loaded successfully"
    /\ loading' = FALSE
    /\ analyses' = Remove(analyses, i)
    /\ UNCHANGED <<component, editingTransaction, selectedCategory,
                   filterCategory, viewMode, selectedCategoryForView, sortBy,
                   serverStatus, updates, store, budget, sumIn, sumOut, appVars>>

\* a catch branch with no finally block: loading stays set
LoadFailedStaysLoading(i) ==
    /\ toast' = "Failed to load expense analysis"
    /\ analyses' = Remove(analyses, i)
    /\ UNCHANGED <<component, transactions, categories, loading,
                   editingTransaction, selectedCategory, filterCategory,
                   viewMode, selectedCategoryForView, sortBy, serverStatus,
                   updates, store, budget, sumIn, sumOut, appVars>>

\* catch: toast.error; finally: setLoading(false)
LoadFailed(i) ==
    /\ toast' = "Failed to load expense analysis"
    /\ loading' = FALSE
    /\ analyses' = Remove(analyses, i)
    /\ UNCHANGED <<component, transactions, categories, editingTransaction,
                   selectedCategory, filterCategory, viewMode,
                   selectedCategoryForView, sortBy, serverStatus, updates,
                   store, budget, sumIn, sumOut, appVars>>

\* StatusBar fetchStatus: setServerStatus(status), or chunk_count 0 on error;
\* then the component's effect: chunk_count > 0 starts loadExpenseAnalysis.
\* pages depends on [serverStatus], tiles on [serverStatus?.chunk_count].
EffectRuns(c) ==
    \/ component = "pages"
    \/ ~serverStatus.set
    \/ serverStatus.chunk_count # c

StatusUpdate(c) ==
    /\ serverStatus' = [set |-> TRUE, chunk_count |-> c]
    /\ IF EffectRuns(c) /\ c > 0
       THEN LoadStart
       ELSE UNCHANGED <<loading, analyses, budget>>
    /\ UNCHANGED <<component, transactions, categories, editingTransaction,
                   selectedCategory, filterCategory, viewMode,
                   selectedCategoryForView, sortBy, updates, store, toast,
                   sumIn, sumOut, appVars>>

\* the Refresh Analysis button: onClick={loadExpenseAnalysis} disabled={loading}
Refresh ==
    /\ UiShown
    /\ ~loading
    /\ LoadStart
    /\ UNCHANGED <<component, transactions, categories, editingTransaction,
                   selectedCategory, filterCategory, viewMode,
                   selectedCategoryForView, sortBy, serverStatus, updates,
                   store, toast, sumIn, sumOut, appVars>>

(***************************************************************************)
(* The category editor and handleCategoryUpdate                            *)
(***************************************************************************)

\* the Edit button of a row that is not being edited
EditStart(id) ==
    /\ RowShown(id)
    /\ editingTransaction # id
    /\ editingTransaction' = id
    /\ selectedCategory' = TxOf(transactions, id).category
    /\ UNCHANGED <<component, transactions, categories, loading, filterCategory,
                   viewMode, selectedCategoryForView, sortBy, serverStatus,
                   analyses, updates, store, toast, budget, sumIn, sumOut, appVars>>

EditorShown == editingTransaction # 0 /\ RowShown(editingTransaction)

\* <select value={selectedCategory} onChange=...>: '' or a key of CATEGORY_COLORS
SelectCategory(c) ==
    /\ EditorShown
    /\ c # selectedCategory
    /\ selectedCategory' = c
    /\ UNCHANGED <<component, transactions, categories, loading,
                   editingTransaction, filterCategory, viewMode,
                   selectedCategoryForView, sortBy, serverStatus, analyses,
                   updates, store, toast, budget, sumIn, sumOut, appVars>>

\* the X button: setEditingTransaction(null)
CancelEdit ==
    /\ EditorShown
    /\ editingTransaction' = 0
    /\ UNCHANGED <<component, transactions, categories, loading,
                   selectedCategory, filterCategory, viewMode,
                   selectedCategoryForView, sortBy, serverStatus, analyses,
                   updates, store, toast, budget, sumIn, sumOut, appVars>>

\* the check button, disabled={!selectedCategory}: handleCategoryUpdate up to
\* its await; the closure holds the `transactions` of the render of the click
Confirm ==
    /\ EditorShown
    /\ selectedCategory # ""
    /\ budget > 0
    /\ budget' = budget - 1
    /\ updates' = Append(updates,
                         [stage |-> "sent", id |-> editingTransaction,
                          category |-> selectedCategory,
                          captured |-> transactions])
    /\ analyses' = [i \in 1..Len(analyses) |->
                      [analyses[i] EXCEPT !.after =
                          { p \in @ : p[1] # editingTransaction }]]
    /\ UNCHANGED <<component, transactions, categories, loading,
                   editingTransaction, selectedCategory, filterCategory,
                   viewMode, selectedCategoryForView, sortBy, serverStatus,
                   store, toast, sumIn, sumOut, appVars>>

\* a batch relabel: every transaction with the description of the target
ApplyOverrideByDescription(prev, id, newCategory) ==
    [k \in 1..Len(prev) |->
        IF \E j \in 1..Len(prev) :
              prev[j].id = id /\ prev[j].description = prev[k].description
        THEN [prev[k] EXCEPT !.category = newCategory]
        ELSE prev[k]]

\* prev.map(t => t.id === transactionId ? { ...t, category: newCategory } : t)
ApplyOverride(prev, id, newCategory) ==
    [k \in 1..Len(prev) |->
        IF prev[k].id = id THEN [prev[k] EXCEPT !.category = newCategory]
        ELSE prev[k]]

\* after the await: setTransactions(prev => ...);
\* setCategories(calculateCategorySummary(transactions)) on the closure's list;
\* setEditingTransaction(null); toast.success
UpdateDone(i) ==
    /\ transactions' =
          Render(component,
                 ApplyOverride(transactions, updates[i].id, updates[i].category),
                 filterCategory, sortBy)
    /\ categories' = Summary(component, updates[i].captured)
    /\ editingTransaction' = 0
    /\ toast' = "Category updated successfully"
    /\ updates' = Remove(updates, i)
    /\ UNCHANGED <<component, loading, selectedCategory, filterCategory,
                   viewMode, selectedCategoryForView, sortBy, serverStatus,
                   analyses, store, budget, sumIn, sumOut, appVars>>

\* an optimistic update that is not rolled back when the request fails
UpdateFailedKeepsChange(i) ==
    /\ transactions' =
          Render(component,
                 [k \in 1..Len(transactions) |->
                     IF transactions[k].id = updates[i].id
                     THEN [transactions[k] EXCEPT !.category = updates[i].category]
                     ELSE transactions[k]],
                 filterCategory, sortBy)
    /\ toast' = "Failed to update category"
    /\ updates' = Remove(updates, i)
    /\ UNCHANGED <<component, categories, loading,
                   editingTransaction, selectedCategory, filterCategory,
                   viewMode, selectedCategoryForView, sortBy, serverStatus,
                   analyses, store, budget, sumIn, sumOut, appVars>>

\* catch: console.error; toast.error
UpdateFailed(i) ==
    /\ toast' = "Failed to update category"
    /\ updates' = Remove(updates, i)
    /\ UNCHANGED <<component, transactions, categories, loading,
                   editingTransaction, selectedCategory, filterCategory,
                   viewMode, selectedCategoryForView, sortBy, serverStatus,
                   analyses, store, budget, sumIn, sumOut, appVars>>

(***************************************************************************)
(* Filter, sort and view controls                                          *)
(***************************************************************************)

\* pages: the filter select; the next render sorts the state array in place.
\* (The sort select is left at its initial 'date'.)
SetFilter(f) ==
    /\ component = "pages"
    /\ UiShown /\ ~loading
    /\ f # filterCategory
    /\ filterCategory' = f
    /\ transactions' = Render(component, transactions, f, sortBy)
    /\ UNCHANGED <<component, categories, loading, editingTransaction,
                   selectedCategory, viewMode, selectedCategoryForView, sortBy,
                   serverStatus, analyses, updates, store, toast, budget, sumIn, sumOut, appVars>>

\* tiles: a click on a category tile
handleCategoryClick(i) ==
    /\ component = "tiles"
    /\ UiShown /\ ~loading /\ viewMode = "tiles"
    /\ i \in 1..Len(categories)
    /\ selectedCategoryForView' = categories[i].name
    /\ viewMode' = "transactions"
    /\ UNCHANGED <<component, transactions, categories, loading,
                   editingTransaction, selectedCategory, filterCategory, sortBy,
                   serverStatus, analyses, updates, store, toast, budget, sumIn, sumOut, appVars>>

\* tiles: Back to Categories
handleBackToTiles ==
    /\ component = "tiles"
    /\ ListShown
    /\ viewMode' = "tiles"
    /\ selectedCategoryForView' = ""
    /\ UNCHANGED <<component, transactions, categories, loading,
                   editingTransaction, selectedCategory, filterCategory, sortBy,
                   serverStatus, analyses, updates, store, toast, budget, sumIn, sumOut, appVars>>

(***************************************************************************)
(* The Retrieval Assembler the specification describes; its code is not    *)
(* part of the client sources.  A text is a sequence of tokens.            *)
(***************************************************************************)

\* longest preview of a hit's text in a citation
PreviewLength == 2

\* no call of assemble was made
NoAssembly ==
    [hits |-> <<>>, tokenBudget |-> 0, done |-> FALSE, contextText |-> <<>>,
     citations |-> <<>>]

\* one citation entry of an included hit
Citation(hit) ==
    [id |-> hit.id,
     preview |-> SubSeq(hit.text, 1,
                        IF Len(hit.text) < PreviewLength THEN Len(hit.text)
                        ELSE PreviewLength)]

\* an assembler that passes over a hit that does not fit and goes on
RECURSIVE assembleFitting(_, _)
assembleFitting(hits, tokenBudget) ==
    IF hits = <<>> THEN [contextText |-> <<>>, citations |-> <<>>]
    ELSE IF Len(Head(hits).text) > tokenBudget
    THEN assembleFitting(Tail(hits), tokenBudget)
    ELSE LET rest == assembleFitting(Tail(hits),
                                     tokenBudget - Len(Head(hits).text))
         IN  [contextText |-> Head(hits).text \o rest.contextText,
              citations |-> <<Citation(Head(hits))>> \o rest.citations]

\* assemble(query, hits, tokenBudget): hit texts in rank order until the next
\* hit would exceed the budget
RECURSIVE assemble(_, _)
assemble(hits, tokenBudget) ==
    IF hits = <<>> THEN [contextText |-> <<>>, citations |-> <<>>]
    ELSE IF Len(Head(hits).text) > tokenBudget
    THEN [contextText |-> <<>>, citations |-> <<>>]
    ELSE LET rest == assemble(Tail(hits), tokenBudget - Len(Head(hits).text))
         IN  [contextText |-> Head(hits).text \o rest.contextText,
              citations |-> <<Citation(Head(hits))>> \o rest.citations]

(***************************************************************************)
(* The store's initial state and the pages' initial local state            *)
(***************************************************************************)

\* create<AppState>: documents [], searchResults [], messages [],
\* responseLength 'balanced'; the useState initial values of the pages
AppIdle ==
    /\ documents = <<>>
    /\ isUploading = FALSE
    /\ uploadProgress = 0
    /\ searchResults = <<>>
    /\ isSearching = FALSE
    /\ searchQuery = <<>>
    /\ messages = <<>>
    /\ isTyping = FALSE
    /\ responseLength = "balanced"
    /\ isClearing = FALSE
    /\ url = <<>>
    /\ query = <<>>
    /\ limit = 5
    /\ message = <<>>
    /\ clears = <<>>
    /\ uploads = <<>>
    /\ searches = <<>>
    /\ chats = <<>>
    /\ timers = 0
    /\ confirmAnswer = "none"
    /\ nextDocument = 1
    /\ index = <<>>
    /\ history = <<>>
    /\ assembly = NoAssembly
    /\ polls = <<>>

(***************************************************************************)
(* Spec: the component against a server that may answer anything           *)
(***************************************************************************)

Init ==
    /\ component \in Components
    /\ transactions = <<>>
    /\ categories = <<>>
    /\ loading = FALSE
    /\ editingTransaction = 0
    /\ selectedCategory = ""
    /\ filterCategory = "all"
    /\ viewMode = "tiles"
    /\ selectedCategoryForView = ""
    /\ sortBy = "date"
    /\ serverStatus = NullStatus
    /\ analyses = <<>>
    /\ updates = <<>>
    /\ store = <<>>
    /\ toast = ""
    /\ budget = MaxRequests
    /\ sumIn = <<>>
    /\ sumOut = NoResult
    /\ AppIdle
    /\ statement = <<>>

AnalyzeResolve ==
    \E i \in 1..Len(analyses) : \E data \in Statements : LoadDone(i, data)

AnalyzeReject == \E i \in 1..Len(analyses) : LoadFailed(i)

UpdateResolve == \E i \in 1..Len(updates) : UpdateDone(i)

UpdateReject == \E i \in 1..Len(updates) : UpdateFailed(i)

Poll == \E c \in ChunkCounts : StatusUpdate(c)

Edit == \E id \in 1..MaxTx : EditStart(id)

Select == \E c \in Picks \cup {""} : SelectCategory(c)

Filter == \E f \in Filters : SetFilter(f)

TileClick == \E i \in 1..MaxTx : handleCategoryClick(i)

Next ==
    \/ Poll
    \/ Refresh
    \/ AnalyzeResolve
    \/ AnalyzeReject
    \/ Edit
    \/ Select
    \/ CancelEdit
    \/ Confirm
    \/ UpdateResolve
    \/ UpdateReject
    \/ Filter
    \/ TileClick
    \/ handleBackToTiles

Spec == Init /\ [][Next]_vars

(***************************************************************************)
(* SpecServer: the component against the server the specification          *)
(* describes (Transaction Extractor, Category Classifier, Category         *)
(* Reconciler); the server's code is not part of the client sources.       *)
(***************************************************************************)

\* most requests sent in one session against the described server
MaxServerRequests == 3

\* what the classifier may answer for a transaction; (Miscellaneous, 0.0) is
\* its fallback
Classifications ==
    { [category |-> "Entertainment", confidence |-> 90],
      [category |-> "Miscellaneous", confidence |-> 0] }

Blank == " "

\* String.prototype.trim
RECURSIVE TrimStart(_)
TrimStart(s) ==
    IF s # <<>> /\ Head(s) = Blank THEN TrimStart(Tail(s)) ELSE s

RECURSIVE TrimEnd(_)
TrimEnd(s) ==
    IF s # <<>> /\ s[Len(s)] = Blank THEN TrimEnd(SubSeq(s, 1, Len(s) - 1))
    ELSE s

Trim(s) == TrimEnd(TrimStart(s))

\* a description is compared in lower case
Lower(ch) == IF ch = "N" THEN "n" ELSE ch

\* the normalized description of the composite key
NormalizeDescription(d) ==
    LET t == Trim(d) IN [k \in 1..Len(t) |-> Lower(t[k])]

\* the composite key (date, normalized description, amount)
RowKey(r) == <<r.date, NormalizeDescription(r.description), r.amount>>

\* the rows in order, a row discarded if an earlier one has its key
RECURSIVE Dedup(_)
Dedup(rows) ==
    IF rows = <<>> THEN <<>>
    ELSE LET init == Dedup(SubSeq(rows, 1, Len(rows) - 1))
             last == rows[Len(rows)]
         IN  IF \E k \in 1..Len(init) : RowKey(init[k]) = RowKey(last)
             THEN init
             ELSE Append(init, last)

\* one transaction for each row: category and confidence at their defaults
ExtractedAll(rows) ==
    [i \in 1..Len(rows) |->
        [id |-> i, date |-> rows[i].date, description |-> rows[i].description,
         amount |-> rows[i].amount, type |-> rows[i].type,
         category |-> "Miscellaneous", confidence |-> 0,
         manuallyOverridden |-> FALSE]]

\* the extractor's output: one transaction for each row kept
Extracted(rows) == ExtractedAll(Dedup(rows))

\* the statement lines of the documents: a line and the same line as read a
\* second time
ServerRows ==
    { [date |-> 1, description |-> <<"N">>, amount |-> 100, type |-> "debit"],
      [date |-> 1, description |-> <<"n", Blank>>, amount |-> 100,
       type |-> "debit"] }

ServerStatements == SeqsUpTo(ServerRows, MaxTx)

\* the same with a line of another amount
ExtractorRows ==
    ServerRows \cup
    { [date |-> 1, description |-> <<"N">>, amount |-> 200, type |-> "debit"] }

ExtractorStatements == SeqsUpTo(ExtractorRows, MaxTx)

\* the classifier leaves a manually overridden transaction alone
ReclassifyAlways(t, c) ==
    [t EXCEPT !.category = c.category, !.confidence = c.confidence]

Reclassify(t, c) ==
    IF t.manuallyOverridden THEN t ELSE ReclassifyAlways(t, c)

\* one analysis run over the stored transactions, answered with the result
ServerAnalyze(i) ==
    /\ i \in 1..Len(analyses)
    /\ analyses[i].stage = "sent"
    /\ \E cs \in [1..Len(store) -> Classifications] :
          /\ store' = [k \in 1..Len(store) |-> Reclassify(store[k], cs[k])]
          /\ analyses' = [analyses EXCEPT ![i].stage = "served",
                                          ![i].data = store']
    /\ UNCHANGED <<component, transactions, categories, loading,
                   editingTransaction, selectedCategory, filterCategory,
                   viewMode, selectedCategoryForView, sortBy, serverStatus,
                   updates, toast, budget, sumIn, sumOut, appVars>>

\* the request fails on its way
ServerAnalyzeFails(i) ==
    /\ i \in 1..Len(analyses)
    /\ analyses[i].stage = "sent"
    /\ analyses' = [analyses EXCEPT ![i].stage = "failed"]
    /\ UNCHANGED <<component, transactions, categories, loading,
                   editingTransaction, selectedCategory, filterCategory,
                   viewMode, selectedCategoryForView, sortBy, serverStatus,
                   updates, store, toast, budget, sumIn, sumOut, appVars>>

\* the reconciler: category, confidence = 1.0, manuallyOverridden = true
Reconcile(t, category) ==
    [t EXCEPT !.category = category, !.confidence = 100,
              !.manuallyOverridden = TRUE]

\* override(transactionId, category): UnknownCategory outside the enum
ServerUpdate(i) ==
    /\ i \in 1..Len(updates)
    /\ updates[i].stage = "sent"
    /\ IF updates[i].category \in Categories /\ HasId(store, updates[i].id)
       THEN /\ store' = [k \in 1..Len(store) |->
                           IF store[k].id = updates[i].id
                           THEN Reconcile(store[k], updates[i].category)
                           ELSE store[k]]
            /\ updates' = [updates EXCEPT ![i].stage = "ok"]
       ELSE /\ store' = store
            /\ updates' = [updates EXCEPT ![i].stage = "failed"]
    /\ UNCHANGED <<component, transactions, categories, loading,
                   editingTransaction, selectedCategory, filterCategory,
                   viewMode, selectedCategoryForView, sortBy, serverStatus,
                   analyses, toast, budget, sumIn, sumOut, appVars>>

\* the request fails on its way
ServerUpdateFails(i) ==
    /\ i \in 1..Len(updates)
    /\ updates[i].stage = "sent"
    /\ updates' = [updates EXCEPT ![i].stage = "failed"]
    /\ UNCHANGED <<component, transactions, categories, loading,
                   editingTransaction, selectedCategory, filterCategory,
                   viewMode, selectedCategoryForView, sortBy, serverStatus,
                   analyses, store, toast, budget, sumIn, sumOut, appVars>>

InitServer ==
    /\ component \in Components
    /\ transactions = <<>>
    /\ categories = <<>>
    /\ loading = FALSE
    /\ editingTransaction = 0
    /\ selectedCategory = ""
    /\ filterCategory = "all"
    /\ viewMode = "tiles"
    /\ selectedCategoryForView = ""
    /\ sortBy = "date"
    /\ serverStatus = NullStatus
    /\ analyses = <<>>
    /\ updates = <<>>
    /\ statement \in ServerStatements
    /\ store = Extracted(statement)
    /\ toast = ""
    /\ budget = MaxServerRequests
    /\ sumIn = <<>>
    /\ sumOut = NoResult
    /\ AppIdle

Analyze == \E i \in 1..Len(analyses) : ServerAnalyze(i)

AnalyzeLost == \E i \in 1..Len(analyses) : ServerAnalyzeFails(i)

Override == \E i \in 1..Len(updates) : ServerUpdate(i)

OverrideLost == \E i \in 1..Len(updates) : ServerUpdateFails(i)

AnalyzeResolveServed ==
    \E i \in 1..Len(analyses) :
        analyses[i].stage = "served" /\ LoadDone(i, analyses[i].data)

AnalyzeRejectServed ==
    \E i \in 1..Len(analyses) : analyses[i].stage = "failed" /\ LoadFailed(i)

UpdateResolveServed ==
    \E i \in 1..Len(updates) : updates[i].stage = "ok" /\ UpdateDone(i)

UpdateRejectServed ==
    \E i \in 1..Len(updates) : updates[i].stage = "failed" /\ UpdateFailed(i)

NextServer ==
    \/ Poll
    \/ Refresh
    \/ Analyze
    \/ AnalyzeLost
    \/ AnalyzeResolveServed
    \/ AnalyzeRejectServed
    \/ Edit
    \/ Select
    \/ CancelEdit
    \/ Confirm
    \/ Override
    \/ OverrideLost
    \/ UpdateResolveServed
    \/ UpdateRejectServed
    \/ Filter
    \/ TileClick
    \/ handleBackToTiles

SpecServer == InitServer /\ [][NextServer]_vars

(***************************************************************************)
(* SpecExtractor: the analyses of every short statement, loaded by the     *)
(* component                                                               *)
(***************************************************************************)

InitExtractor ==
    /\ component \in Components
    /\ transactions = <<>>
    /\ categories = <<>>
    /\ loading = FALSE
    /\ editingTransaction = 0
    /\ selectedCategory = ""
    /\ filterCategory = "all"
    /\ viewMode = "tiles"
    /\ selectedCategoryForView = ""
    /\ sortBy = "date"
    /\ serverStatus = NullStatus
    /\ analyses = <<>>
    /\ updates = <<>>
    /\ statement \in ExtractorStatements
    /\ store = Extracted(statement)
    /\ toast = ""
    /\ budget = MaxServerRequests
    /\ sumIn = <<>>
    /\ sumOut = NoResult
    /\ AppIdle

NextExtractor ==
    \/ Poll
    \/ Refresh
    \/ Analyze
    \/ AnalyzeLost
    \/ AnalyzeResolveServed
    \/ AnalyzeRejectServed

SpecExtractor == InitExtractor /\ [][NextExtractor]_vars

(***************************************************************************)
(* SpecSummary: the two summary functions called on every short list       *)
(***************************************************************************)

SummaryRows ==
    [date : {1}, description : {"row"}, amount : {-100, 0, 100, 200, 300},
     type : {"debit", "credit"}, category : {"Food & Dining", "Shopping"},
     confidence : {90}]

SummaryInputs == { WithIds(rows) : rows \in SeqsUpTo(SummaryRows, MaxLen) }

InitSummary ==
    /\ component = "pages"
    /\ transactions = <<>>
    /\ categories = <<>>
    /\ loading = FALSE
    /\ editingTransaction = 0
    /\ selectedCategory = ""
    /\ filterCategory = "all"
    /\ viewMode = "tiles"
    /\ selectedCategoryForView = ""
    /\ sortBy = "date"
    /\ serverStatus = NullStatus
    /\ analyses = <<>>
    /\ updates = <<>>
    /\ store = <<>>
    /\ toast = ""
    /\ budget = 0
    /\ sumIn \in SummaryInputs
    /\ sumOut = NoResult
    /\ AppIdle
    /\ statement = <<>>

Summarize ==
    /\ ~sumOut.done
    /\ sumOut' = [done |-> TRUE,
                  pages |-> calculateCategorySummary(sumIn),
                  tiles |-> calculateCategorySummaryTiles(sumIn)]
    /\ UNCHANGED <<component, transactions, categories, loading,
                   editingTransaction, selectedCategory, filterCategory,
                   viewMode, selectedCategoryForView, sortBy, serverStatus,
                   analyses, updates, store, toast, budget, sumIn,
                   appVars>>

NextSummary == Summarize

SpecSummary == InitSummary /\ [][NextSummary]_vars

(***************************************************************************)
(* The store, the StatusBar and the upload, search and chat pages.         *)
(* A text the user types is held as the sequence of its characters.       *)
(* Changing tab unmounts a page and puts its local state (url, query,      *)
(* limit, message) back to the initial values, which the user also reaches *)
(* by typing; the tabs themselves are not part of the state.               *)
(***************************************************************************)

\* most requests (clear, upload, search, chat) sent in one session
MaxAppRequests == 2

\* texts typed into the URL input
Urls == { <<>>, <<"u">> }

\* texts typed into the search input
Queries == { <<>>, <<Blank>>, <<"q">> }

\* quickSearches[*].query
quickSearches == { <<"s">> }

\* the options of the limit select
Limits == {3, 5, 10}

\* texts typed into the chat input
Messages == { <<>>, <<"m">> }

\* the options of the response length select
ResponseLengths == {"brief", "balanced", "detailed"}

\* chunks_count of an upload response
ChunksCounts == {1, 2}

\* response.results of a search
SearchAnswers ==
    { <<>>, <<[text |-> "a", similarity_score |-> 90]>> }

\* what the handlers report with toast.loading / toast.success / toast.error
ClearLoading == "Clearing database..."
ClearSuccess == "Database cleared successfully"
ClearFailure == "Failed to clear database"
UploadLoading == "Uploading..."
UploadSuccess == "Successfully uploaded"
UploadFailure == "Upload failed"

(***************************************************************************)
(* StatusBar                                                               *)
(***************************************************************************)

\* fetchStatus of the 30 s interval: setServerStatus(status); on an error the
\* status set has chunk_count 0
fetchStatus(c) ==
    /\ serverStatus' = [set |-> TRUE, chunk_count |-> c]
    /\ UNCHANGED <<expenseVars, appVars, toast, budget>>

\* the Clear DB button is rendered with a status whose chunk_count > 0
ClearButtonEnabled ==
    /\ serverStatus.set
    /\ serverStatus.chunk_count > 0
    /\ ~isClearing

\* a handler that sends the request whatever window.confirm answers
ClearClickUnconfirmed(answer) ==
    /\ ClearButtonEnabled
    /\ confirmAnswer' = answer
    /\ budget > 0
    /\ budget' = budget - 1
    /\ toast' = ClearLoading
    /\ isClearing' = TRUE
    /\ clears' = Append(clears, [stage |-> "clearing", cleared |-> FALSE])
    /\ UNCHANGED <<expenseVars, serverStatus, documents, isUploading,
                   uploadProgress, searchResults, isSearching, searchQuery,
                   messages, isTyping, responseLength, url, query, limit,
                   message, uploads, searches, chats, timers, nextDocument,
                   index, history, assembly,
                   statement, polls>>

\* handleClearDatabase up to its first await: window.confirm, toast.loading,
\* setIsClearing(true), apiService.clearDatabase()
ClearClick(answer) ==
    /\ ClearButtonEnabled
    /\ confirmAnswer' = answer
    /\ IF answer = "yes"
       THEN /\ budget > 0
            /\ budget' = budget - 1
            /\ toast' = ClearLoading
            /\ isClearing' = TRUE
            /\ clears' = Append(clears, [stage |-> "clearing", cleared |-> FALSE])
       ELSE UNCHANGED <<budget, toast, isClearing, clears>>
    /\ UNCHANGED <<expenseVars, serverStatus, documents, isUploading,
                   uploadProgress, searchResults, isSearching, searchQuery,
                   messages, isTyping, responseLength, url, query, limit,
                   message, uploads, searches, chats, timers, nextDocument,
                   index, history, assembly,
                   statement, polls>>

\* clearDatabase resolved: clearDocuments(); setSearchResults([]);
\* clearMessages(); setServerStatus({...serverStatus, chunk_count: 0});
\* then await apiService.getStatus()
ClearResolved(i) ==
    /\ clears[i].stage = "clearing"
    /\ documents' = <<>>
    /\ searchResults' = <<>>
    /\ messages' = <<>>
    /\ serverStatus' = [set |-> TRUE, chunk_count |-> 0]
    /\ clears' = [clears EXCEPT ![i] = [stage |-> "status", cleared |-> TRUE]]
    /\ UNCHANGED <<expenseVars, toast, budget, isUploading, uploadProgress,
                   isSearching, searchQuery, isTyping, responseLength,
                   isClearing, url, query, limit, message, uploads, searches,
                   chats, timers, confirmAnswer, nextDocument, index, history, assembly,
                   statement, polls>>

\* catch: toast.error('Failed to clear database'); finally: setIsClearing(false)
ClearFailed(i) ==
    /\ toast' = ClearFailure
    /\ isClearing' = FALSE
    /\ clears' = Remove(clears, i)
    /\ UNCHANGED <<expenseVars, serverStatus, budget, documents, isUploading,
                   uploadProgress, searchResults, isSearching, searchQuery,
                   messages, isTyping, responseLength, url, query, limit,
                   message, uploads, searches, chats, timers, confirmAnswer,
                   nextDocument, index, history, assembly,
                   statement, polls>>

\* getStatus resolved: setServerStatus(status); toast.success; finally
ClearStatusResolved(i, c) ==
    /\ clears[i].stage = "status"
    /\ serverStatus' = [set |-> TRUE, chunk_count |-> c]
    /\ toast' = ClearSuccess
    /\ isClearing' = FALSE
    /\ clears' = Remove(clears, i)
    /\ UNCHANGED <<expenseVars, budget, documents, isUploading,
                   uploadProgress, searchResults, isSearching, searchQuery,
                   messages, isTyping, responseLength, url, query, limit,
                   message, uploads, searches, chats, timers, confirmAnswer,
                   nextDocument, index, history, assembly,
                   statement, polls>>

(***************************************************************************)
(* DocumentUpload                                                          *)
(***************************************************************************)

\* the URL input, disabled={isUploading}
SetUrl(u) ==
    /\ ~isUploading
    /\ url' = u
    /\ UNCHANGED <<expenseVars, serverStatus, toast, budget, documents,
                   isUploading, uploadProgress, searchResults, isSearching,
                   searchQuery, messages, isTyping, responseLength,
                   isClearing, query, limit, message, clears, uploads,
                   searches, chats, timers, confirmAnswer, nextDocument,
                   index, history, assembly,
                   statement, polls>>

\* handleFileUpload up to its first await (a file chosen or dropped):
\* toast.loading; setUploading(true); setUploadProgress(0); uploadFile(file)
FileUpload ==
    /\ budget > 0
    /\ budget' = budget - 1
    /\ toast' = UploadLoading
    /\ isUploading' = TRUE
    /\ uploadProgress' = 0
    /\ uploads' = Append(uploads, [kind |-> "file", stage |-> "upload",
                                   document |-> 0, chunks |-> 0])
    /\ UNCHANGED <<expenseVars, serverStatus, documents, searchResults,
                   isSearching, searchQuery, messages, isTyping,
                   responseLength, isClearing, url, query, limit, message,
                   clears, searches, chats, timers, confirmAnswer,
                   nextDocument, index, history, assembly,
                   statement, polls>>

\* handleUrlUpload up to its first await; the button is
\* disabled={!url.trim() || isUploading}
UrlUpload ==
    /\ Trim(url) # <<>>
    /\ ~isUploading
    /\ budget > 0
    /\ budget' = budget - 1
    /\ toast' = "Processing URL..."
    /\ isUploading' = TRUE
    /\ uploads' = Append(uploads, [kind |-> "url", stage |-> "upload",
                                   document |-> 0, chunks |-> 0])
    /\ UNCHANGED <<expenseVars, serverStatus, documents, uploadProgress,
                   searchResults, isSearching, searchQuery, messages,
                   isTyping, responseLength, isClearing, url, query, limit,
                   message, clears, searches, chats, timers, confirmAnswer,
                   nextDocument, index, history, assembly,
                   statement, polls>>

\* a store action that puts the new document first
addDocumentFirst(docs, document) == <<document>> \o docs

\* addDocument: set(state => ({ documents: [...state.documents, document] }))
addDocument(docs, document) == Append(docs, document)

\* the upload resolved with (document_id, filename, chunks_count):
\* addDocument({...}); setUploadProgress(100) or setUrl(''); then
\* await apiService.getStatus()
UploadResolved(i, chunks) ==
    /\ uploads[i].stage = "upload"
    /\ documents' = addDocument(documents,
                                [id |-> nextDocument,
                                 filename |-> uploads[i].kind,
                                 chunks_count |-> chunks])
    /\ nextDocument' = nextDocument + 1
    /\ IF uploads[i].kind = "file"
       THEN uploadProgress' = 100 /\ url' = url
       ELSE uploadProgress' = uploadProgress /\ url' = <<>>
    /\ uploads' = [uploads EXCEPT ![i].stage = "status",
                                  ![i].document = nextDocument,
                                  ![i].chunks = chunks]
    /\ UNCHANGED <<expenseVars, serverStatus, toast, budget, isUploading,
                   searchResults, isSearching, searchQuery, messages,
                   isTyping, responseLength, isClearing, query, limit,
                   message, clears, searches, chats, timers, confirmAnswer,
                   index, history, assembly,
                   statement, polls>>

\* finally: setUploading(false); the file handler also starts
\* setTimeout(() => setUploadProgress(0), 1000)
UploadFinally(i) ==
    /\ isUploading' = FALSE
    /\ timers' = IF uploads[i].kind = "file" THEN timers + 1 ELSE timers
    /\ uploads' = Remove(uploads, i)

\* catch: toast.error('Upload failed' / 'Failed to process URL'); finally
UploadFailed(i) ==
    /\ toast' = IF uploads[i].kind = "file" THEN UploadFailure
                ELSE "Failed to process URL"
    /\ UploadFinally(i)
    /\ UNCHANGED <<expenseVars, serverStatus, budget, documents,
                   uploadProgress, searchResults, isSearching, searchQuery,
                   messages, isTyping, responseLength, isClearing, url,
                   query, limit, message, clears, searches, chats,
                   confirmAnswer, nextDocument, index, history, assembly,
                   statement, polls>>

\* getStatus resolved: setServerStatus(status); toast.success; finally
UploadStatusResolved(i, c) ==
    /\ uploads[i].stage = "status"
    /\ serverStatus' = [set |-> TRUE, chunk_count |-> c]
    /\ toast' = IF uploads[i].kind = "file" THEN UploadSuccess
                ELSE "Successfully processed URL"
    /\ UploadFinally(i)
    /\ UNCHANGED <<expenseVars, budget, documents, uploadProgress,
                   searchResults, isSearching, searchQuery, messages,
                   isTyping, responseLength, isClearing, url, query, limit,
                   message, clears, searches, chats, confirmAnswer,
                   nextDocument, index, history, assembly,
                   statement, polls>>

\* the timer of the file handler's finally: setUploadProgress(0)
ProgressTimer ==
    /\ timers > 0
    /\ timers' = timers - 1
    /\ uploadProgress' = 0
    /\ UNCHANGED <<expenseVars, serverStatus, toast, budget, documents,
                   isUploading, searchResults, isSearching, searchQuery,
                   messages, isTyping, responseLength, isClearing, url,
                   query, limit, message, clears, uploads, searches, chats,
                   confirmAnswer, nextDocument, index, history, assembly,
                   statement, polls>>

(***************************************************************************)
(* SearchInterface                                                         *)
(***************************************************************************)

\* the query input, disabled={isSearching}
SetQuery(q) ==
    /\ ~isSearching
    /\ query' = q
    /\ UNCHANGED <<expenseVars, serverStatus, toast, budget, documents,
                   isUploading, uploadProgress, searchResults, isSearching,
                   searchQuery, messages, isTyping, responseLength,
                   isClearing, url, limit, message, clears, uploads,
                   searches, chats, timers, confirmAnswer, nextDocument,
                   index, history, assembly,
                   statement, polls>>

\* the limit select, disabled={isSearching}: setLimit(Number(e.target.value))
SetLimit(l) ==
    /\ ~isSearching
    /\ limit' = l
    /\ UNCHANGED <<expenseVars, serverStatus, toast, budget, documents,
                   isUploading, uploadProgress, searchResults, isSearching,
                   searchQuery, messages, isTyping, responseLength,
                   isClearing, url, query, message, clears, uploads,
                   searches, chats, timers, confirmAnswer, nextDocument,
                   index, history, assembly,
                   statement, polls>>

\* a query of spaces only passes a test that does not trim
QueryNotEmpty(q) == q # <<>>

\* if (!query.trim()) return
QueryAccepted(q) == Trim(q) # <<>>

\* handleSearch with the `query` and `limit` of the render it was made in, up
\* to its await: setSearching(true); setSearchQuery(query); searchDocuments
handleSearch(q) ==
    /\ QueryAccepted(q)
    /\ budget > 0
    /\ budget' = budget - 1
    /\ isSearching' = TRUE
    /\ searchQuery' = q
    /\ searches' = Append(searches, [query |-> q, limit |-> limit,
                                     stage |-> "sent", results |-> <<>>])
    /\ UNCHANGED <<expenseVars, serverStatus, toast, documents, isUploading,
                   uploadProgress, searchResults, messages, isTyping,
                   responseLength, isClearing, url, limit, message, clears,
                   uploads, chats, timers, confirmAnswer, nextDocument,
                   index, history, assembly,
                   statement, polls>>

\* the search button, disabled={!query.trim() || isSearching}
SearchClick ==
    /\ Trim(query) # <<>>
    /\ ~isSearching
    /\ handleSearch(query)
    /\ query' = query

\* Enter in the query input (disabled={isSearching})
SearchEnter ==
    /\ ~isSearching
    /\ handleSearch(query)
    /\ query' = query

\* a quick search button (disabled={isSearching}): setQuery(item.query);
\* handleSearch() -- the handler of this render, which holds the old query
QuickSearch(item) ==
    /\ ~isSearching
    /\ query' = item
    /\ IF QueryAccepted(query)
       THEN handleSearch(query)
       ELSE UNCHANGED <<expenseVars, serverStatus, toast, budget, documents,
                        isUploading, uploadProgress, searchResults,
                        isSearching, searchQuery, messages, isTyping,
                        responseLength, isClearing, url, limit, message,
                        clears, uploads, searches, chats, timers,
                        confirmAnswer, nextDocument, index, history, assembly,
                   statement, polls>>

\* setSearchResults(response.results); finally setSearching(false)
SearchResolved(i, results) ==
    /\ searchResults' = results
    /\ isSearching' = FALSE
    /\ searches' = Remove(searches, i)
    /\ UNCHANGED <<expenseVars, serverStatus, toast, budget, documents,
                   isUploading, uploadProgress, searchQuery, messages,
                   isTyping, responseLength, isClearing, url, query, limit,
                   message, clears, uploads, chats, timers, confirmAnswer,
                   nextDocument, index, history, assembly,
                   statement, polls>>

\* catch: setSearchResults([]); finally setSearching(false)
SearchFailed(i) == SearchResolved(i, <<>>)

\* the result list: searchResults.map((result, index) => Result {index + 1})
ResultCards ==
    [k \in 1..Len(searchResults) |->
        [rank |-> k, text |-> searchResults[k].text,
         similarity_score |-> searchResults[k].similarity_score]]

(***************************************************************************)
(* ChatInterface                                                           *)
(***************************************************************************)

\* the message input, disabled={isTyping}
SetMessage(m) ==
    /\ ~isTyping
    /\ message' = m
    /\ UNCHANGED <<expenseVars, serverStatus, toast, budget, documents,
                   isUploading, uploadProgress, searchResults, isSearching,
                   searchQuery, messages, isTyping, responseLength,
                   isClearing, url, query, limit, clears, uploads, searches,
                   chats, timers, confirmAnswer, nextDocument, index, history, assembly,
                   statement, polls>>

\* the response length select: setResponseLength(e.target.value)
SetResponseLength(l) ==
    /\ responseLength' = l
    /\ UNCHANGED <<expenseVars, serverStatus, toast, budget, documents,
                   isUploading, uploadProgress, searchResults, isSearching,
                   searchQuery, messages, isTyping, isClearing, url, query,
                   limit, message, clears, uploads, searches, chats, timers,
                   confirmAnswer, nextDocument, index, history, assembly,
                   statement, polls>>

\* the Clear Chat button, disabled={messages.length === 0}: clearMessages
ClearChat ==
    /\ messages # <<>>
    /\ messages' = <<>>
    /\ UNCHANGED <<expenseVars, serverStatus, toast, budget, documents,
                   isUploading, uploadProgress, searchResults, isSearching,
                   searchQuery, isTyping, responseLength, isClearing, url,
                   query, limit, message, clears, uploads, searches, chats,
                   timers, confirmAnswer, nextDocument, index, history, assembly,
                   statement, polls>>

\* a request that always asks for the default length
DefaultLength(selected) == "balanced"

\* response_length: responseLength
RequestLength(selected) == selected

\* addMessage: set(state => ({ messages: [...state.messages, message] }))
addMessage(msgs, m) == Append(msgs, m)

\* handleSendMessage up to its await (send button or Enter):
\* if (!message.trim() || isTyping) return; addMessage(userMessage);
\* setMessage(''); setTyping(true); chatWithDocuments({message, response_length})
SendMessage ==
    /\ Trim(message) # <<>>
    /\ ~isTyping
    /\ budget > 0
    /\ budget' = budget - 1
    /\ messages' = addMessage(messages, [role |-> "user", content |-> "question"])
    /\ message' = <<>>
    /\ isTyping' = TRUE
    /\ chats' = Append(chats, [message |-> message,
                               response_length |-> RequestLength(responseLength),
                               outcome |-> "pending"])
    /\ UNCHANGED <<expenseVars, serverStatus, toast, documents, isUploading,
                   uploadProgress, searchResults, isSearching, searchQuery,
                   responseLength, isClearing, url, query, limit, clears,
                   uploads, searches, timers, confirmAnswer, nextDocument,
                   index, history, assembly,
                   statement, polls>>

\* the chat call settles: addMessage(m); finally setTyping(false)
ChatSettles(i, m) ==
    /\ messages' = addMessage(messages, m)
    /\ isTyping' = FALSE
    /\ chats' = Remove(chats, i)
    /\ UNCHANGED <<expenseVars, serverStatus, toast, budget, documents,
                   isUploading, uploadProgress, searchResults, isSearching,
                   searchQuery, responseLength, isClearing, url, query,
                   limit, message, clears, uploads, searches, timers,
                   confirmAnswer, nextDocument, index, history, assembly,
                   statement, polls>>

\* api.post('/chat', request) settles: the promise resolves or rejects
chatWithDocuments(i, outcome) ==
    /\ chats[i].outcome = "pending"
    /\ chats' = [chats EXCEPT ![i].outcome = outcome]
    /\ UNCHANGED <<expenseVars, serverStatus, toast, budget, documents,
                   isUploading, uploadProgress, searchResults, isSearching,
                   searchQuery, messages, isTyping, responseLength,
                   isClearing, url, query, limit, message, clears, uploads,
                   searches, timers, confirmAnswer, nextDocument, index, history, assembly,
                   statement, polls>>

\* addMessage(assistantMessage)
ChatResolved(i) ==
    /\ chats[i].outcome = "ok"
    /\ ChatSettles(i, [role |-> "assistant", content |-> "answer"])

\* a catch branch that sends the request again and tells the user nothing
ChatFailedRetries(i) ==
    /\ chats[i].outcome = "failed"
    /\ chats' = [chats EXCEPT ![i].outcome = "pending"]
    /\ UNCHANGED <<expenseVars, serverStatus, toast, budget, documents,
                   isUploading, uploadProgress, searchResults, isSearching,
                   searchQuery, messages, isTyping, responseLength,
                   isClearing, url, query, limit, message, clears, uploads,
                   searches, timers, confirmAnswer, nextDocument, index, history, assembly,
                   statement, polls>>

\* catch: addMessage(errorMessage), 'Sorry, I encountered an error ...'
ChatFailed(i) ==
    /\ chats[i].outcome = "failed"
    /\ ChatSettles(i, [role |-> "assistant", content |-> "error"])

(***************************************************************************)
(* SpecApp: the StatusBar and the three pages against a server that may    *)
(* answer anything                                                         *)
(***************************************************************************)

InitApp ==
    /\ component = "pages"
    /\ transactions = <<>>
    /\ categories = <<>>
    /\ loading = FALSE
    /\ editingTransaction = 0
    /\ selectedCategory = ""
    /\ filterCategory = "all"
    /\ viewMode = "tiles"
    /\ selectedCategoryForView = ""
    /\ sortBy = "date"
    /\ serverStatus = NullStatus
    /\ analyses = <<>>
    /\ updates = <<>>
    /\ store = <<>>
    /\ toast = ""
    /\ budget = MaxAppRequests
    /\ sumIn = <<>>
    /\ sumOut = NoResult
    /\ AppIdle
    /\ statement = <<>>

StatusPoll == \E c \in ChunkCounts : fetchStatus(c)

Clear == \E answer \in {"yes", "no"} : ClearClick(answer)

ClearResolves == \E i \in 1..Len(clears) : ClearResolved(i)

ClearRejects == \E i \in 1..Len(clears) : ClearFailed(i)

ClearStatusResolves ==
    \E i \in 1..Len(clears) : \E c \in ChunkCounts : ClearStatusResolved(i, c)

TypeUrl == \E u \in Urls : SetUrl(u)

UploadResolves ==
    \E i \in 1..Len(uploads) : \E n \in ChunksCounts : UploadResolved(i, n)

UploadRejects == \E i \in 1..Len(uploads) : UploadFailed(i)

UploadStatusResolves ==
    \E i \in 1..Len(uploads) : \E c \in ChunkCounts : UploadStatusResolved(i, c)

TypeQuery == \E q \in Queries : SetQuery(q)

PickLimit == \E l \in Limits : SetLimit(l)

Quick == \E item \in quickSearches : QuickSearch(item)

SearchResolves ==
    \E i \in 1..Len(searches) : \E r \in SearchAnswers : SearchResolved(i, r)

SearchRejects == \E i \in 1..Len(searches) : SearchFailed(i)

TypeMessage == \E m \in Messages : SetMessage(m)

PickLength == \E l \in ResponseLengths : SetResponseLength(l)

ChatAnswers ==
    \E i \in 1..Len(chats) : \E o \in {"ok", "failed"} : chatWithDocuments(i, o)

ChatResolves == \E i \in 1..Len(chats) : ChatResolved(i)

ChatRejects == \E i \in 1..Len(chats) : ChatFailed(i)

NextApp ==
    \/ StatusPoll
    \/ Clear
    \/ ClearResolves
    \/ ClearRejects
    \/ ClearStatusResolves
    \/ TypeUrl
    \/ FileUpload
    \/ UrlUpload
    \/ UploadResolves
    \/ UploadRejects
    \/ UploadStatusResolves
    \/ ProgressTimer
    \/ TypeQuery
    \/ PickLimit
    \/ SearchClick
    \/ SearchEnter
    \/ Quick
    \/ SearchResolves
    \/ SearchRejects
    \/ TypeMessage
    \/ PickLength
    \/ ClearChat
    \/ SendMessage
    \/ ChatAnswers
    \/ ChatResolves
    \/ ChatRejects

SpecApp == InitApp /\ [][NextApp]_vars

\* the StatusBar and the upload page, the other pages left alone
NextUpload ==
    \/ StatusPoll
    \/ Clear
    \/ ClearResolves
    \/ ClearRejects
    \/ ClearStatusResolves
    \/ TypeUrl
    \/ FileUpload
    \/ UrlUpload
    \/ UploadResolves
    \/ UploadRejects
    \/ UploadStatusResolves
    \/ ProgressTimer

SpecUpload == InitApp /\ [][NextUpload]_vars

\* the StatusBar and the search page, the other pages left alone
NextSearch ==
    \/ StatusPoll
    \/ Clear
    \/ ClearResolves
    \/ ClearRejects
    \/ ClearStatusResolves
    \/ TypeQuery
    \/ PickLimit
    \/ SearchClick
    \/ SearchEnter
    \/ Quick
    \/ SearchResolves
    \/ SearchRejects

SpecSearch == InitApp /\ [][NextSearch]_vars

\* the StatusBar and the chat page, the other pages left alone
NextChat ==
    \/ StatusPoll
    \/ Clear
    \/ ClearResolves
    \/ ClearRejects
    \/ ClearStatusResolves
    \/ TypeMessage
    \/ PickLength
    \/ ClearChat
    \/ SendMessage
    \/ ChatAnswers
    \/ ChatResolves
    \/ ChatRejects

SpecChat == InitApp /\ [][NextChat]_vars

(***************************************************************************)
(* SpecIndex: the search page against the Vector Index the specification   *)
(* describes; the index's code is not part of the client sources.  A       *)
(* chunk's similarity to the query asked is a function of its payload.     *)
(***************************************************************************)

\* most chunks added between two clears
MaxAdds == 4

\* most searches asked of the index
MaxIndexSearches == 1

ChunkIds == 1..4

Payloads == {"a", "b"}

\* chunk 1 is ingested with either payload, the others with one
Chunks ==
    { c \in [id : ChunkIds, text : Payloads] :
        \/ c.id = 1
        \/ c.text = (IF c.id = 3 THEN "b" ELSE "a") }

\* similarity of a payload's vector to the query vector, times 100
Similarity(text) == IF text = "a" THEN 90 ELSE 50

\* an add that stores the chunk once more, whatever ids are stored
IndexAppend(idx, c) == Append(idx, c)

\* add: re-adding an id overwrites its entry, a new id is inserted last
IndexAdd(idx, c) ==
    IF \E k \in 1..Len(idx) : idx[k].id = c.id
    THEN [k \in 1..Len(idx) |-> IF idx[k].id = c.id THEN c ELSE idx[k]]
    ELSE Append(idx, c)

\* count(): current number of stored chunks
IndexCount(idx) == Len(idx)

SearchHit(c) ==
    [id |-> c.id, text |-> c.text, similarity_score |-> Similarity(c.text)]

\* the hit x goes before the first hit of a lower score
RECURSIVE RankInsert(_, _)
RankInsert(s, x) ==
    IF s = <<>> THEN <<x>>
    ELSE IF x.similarity_score > Head(s).similarity_score THEN <<x>> \o s
    ELSE <<Head(s)>> \o RankInsert(Tail(s), x)

\* the same, x going before the first hit of a score not higher
RECURSIVE RankInsertLatestFirst(_, _)
RankInsertLatestFirst(s, x) ==
    IF s = <<>> THEN <<x>>
    ELSE IF x.similarity_score >= Head(s).similarity_score THEN <<x>> \o s
    ELSE <<Head(s)>> \o RankInsertLatestFirst(Tail(s), x)

\* the ranking with ties in the order of latest insertion
RECURSIVE RankedLatestFirst(_)
RankedLatestFirst(idx) ==
    IF idx = <<>> THEN <<>>
    ELSE RankInsertLatestFirst(RankedLatestFirst(SubSeq(idx, 1, Len(idx) - 1)),
                               SearchHit(idx[Len(idx)]))

\* every stored chunk as a hit, by score descending, ties by insertion order
RECURSIVE Ranked(_)
Ranked(idx) ==
    IF idx = <<>> THEN <<>>
    ELSE RankInsert(Ranked(SubSeq(idx, 1, Len(idx) - 1)), SearchHit(idx[Len(idx)]))

\* search(queryVector, k): up to k hits
IndexSearch(idx, k) ==
    LET r == Ranked(idx)
    IN  SubSeq(r, 1, IF k < Len(r) THEN k ELSE Len(r))

\* an ingestion adds a chunk
AddChunk(c) ==
    /\ Len(history) < MaxAdds
    /\ index' = IndexAdd(index, c)
    /\ history' = Append(history, c)
    /\ UNCHANGED <<expenseVars, serverStatus, toast, budget, documents,
                   isUploading, uploadProgress, searchResults, isSearching,
                   searchQuery, messages, isTyping, responseLength,
                   isClearing, url, query, limit, message, clears, uploads,
                   searches, chats, timers, confirmAnswer, nextDocument,
                   assembly, statement, polls>>

\* clear(): removes all entries
ClearIndex ==
    /\ index # <<>>
    /\ index' = <<>>
    /\ history' = <<>>
    /\ UNCHANGED <<expenseVars, serverStatus, toast, budget, documents,
                   isUploading, uploadProgress, searchResults, isSearching,
                   searchQuery, messages, isTyping, responseLength,
                   isClearing, url, query, limit, message, clears, uploads,
                   searches, chats, timers, confirmAnswer, nextDocument,
                   assembly, statement, polls>>

\* the server answers a search request from the index
ServerSearch(i) ==
    /\ searches[i].stage = "sent"
    /\ searches' = [searches EXCEPT
                       ![i].stage = "served",
                       ![i].results = IndexSearch(index, searches[i].limit)]
    /\ UNCHANGED <<expenseVars, serverStatus, toast, budget, documents,
                   isUploading, uploadProgress, searchResults, isSearching,
                   searchQuery, messages, isTyping, responseLength,
                   isClearing, url, query, limit, message, clears, uploads,
                   chats, timers, confirmAnswer, nextDocument, index,
                   history, assembly,
                   statement, polls>>

InitIndex ==
    /\ component = "pages"
    /\ transactions = <<>>
    /\ categories = <<>>
    /\ loading = FALSE
    /\ editingTransaction = 0
    /\ selectedCategory = ""
    /\ filterCategory = "all"
    /\ viewMode = "tiles"
    /\ selectedCategoryForView = ""
    /\ sortBy = "date"
    /\ serverStatus = NullStatus
    /\ analyses = <<>>
    /\ updates = <<>>
    /\ store = <<>>
    /\ toast = ""
    /\ budget = MaxIndexSearches
    /\ sumIn = <<>>
    /\ sumOut = NoResult
    /\ AppIdle
    /\ statement = <<>>

Ingest == \E c \in Chunks : AddChunk(c)

TypeQueryText == SetQuery(<<"q">>)

SearchServes == \E i \in 1..Len(searches) : ServerSearch(i)

SearchResolvesServed ==
    \E i \in 1..Len(searches) :
        searches[i].stage = "served" /\ SearchResolved(i, searches[i].results)

NextIndex ==
    \/ Ingest
    \/ ClearIndex
    \/ TypeQueryText
    \/ PickLimit
    \/ SearchClick
    \/ SearchServes
    \/ SearchResolvesServed

SpecIndex == InitIndex /\ [][NextIndex]_vars

(***************************************************************************)
(* SpecAssembler: assemble called on every short ranked hit list and       *)
(* every small budget                                                      *)
(***************************************************************************)

\* most hits handed to assemble
MaxHits == 3

\* longest hit text, in tokens
MaxTextLen == 3

\* largest token budget
MaxBudget == 4

HitTexts == { [n \in 1..k |-> "t"] : k \in 1..MaxTextLen }

\* hits as the index returns them: rank order, scores descending
RankedHits ==
    { [n \in 1..Len(texts) |->
          [id |-> n, text |-> texts[n], similarity_score |-> 100 - 10 * n]] :
      texts \in SeqsUpTo(HitTexts, MaxHits) }

InitAssembler ==
    /\ component = "pages"
    /\ transactions = <<>>
    /\ categories = <<>>
    /\ loading = FALSE
    /\ editingTransaction = 0
    /\ selectedCategory = ""
    /\ filterCategory = "all"
    /\ viewMode = "tiles"
    /\ selectedCategoryForView = ""
    /\ sortBy = "date"
    /\ serverStatus = NullStatus
    /\ analyses = <<>>
    /\ updates = <<>>
    /\ store = <<>>
    /\ toast = ""
    /\ budget = 0
    /\ sumIn = <<>>
    /\ sumOut = NoResult
    /\ documents = <<>>
    /\ isUploading = FALSE
    /\ uploadProgress = 0
    /\ searchResults = <<>>
    /\ isSearching = FALSE
    /\ searchQuery = <<>>
    /\ messages = <<>>
    /\ isTyping = FALSE
    /\ responseLength = "balanced"
    /\ isClearing = FALSE
    /\ url = <<>>
    /\ query = <<>>
    /\ limit = 5
    /\ message = <<>>
    /\ clears = <<>>
    /\ uploads = <<>>
    /\ searches = <<>>
    /\ chats = <<>>
    /\ timers = 0
    /\ confirmAnswer = "none"
    /\ nextDocument = 1
    /\ index = <<>>
    /\ history = <<>>
    /\ statement = <<>>
    /\ polls = <<>>
    /\ \E hits \in RankedHits : \E tokenBudget \in 0..MaxBudget :
          assembly = [NoAssembly EXCEPT !.hits = hits,
                                        !.tokenBudget = tokenBudget]

Assemble ==
    /\ ~assembly.done
    /\ LET out == assemble(assembly.hits, assembly.tokenBudget)
       IN  assembly' = [assembly EXCEPT !.done = TRUE,
                                        !.contextText = out.contextText,
                                        !.citations = out.citations]
    /\ UNCHANGED <<expenseVars, serverStatus, toast, budget, documents,
                   isUploading, uploadProgress, searchResults, isSearching,
                   searchQuery, messages, isTyping, responseLength,
                   isClearing, url, query, limit, message, clears, uploads,
                   searches, chats, timers, confirmAnswer, nextDocument,
                   index, history, statement, polls>>

NextAssembler == Assemble

SpecAssembler == InitAssembler /\ [][NextAssembler]_vars

(***************************************************************************)
(* SpecStatus: the StatusBar and the upload page against a server whose    *)
(* status reports the number of chunks its index holds when the request is *)
(* handled; the server's code is not part of the client sources.           *)
(***************************************************************************)

\* most requests (polls, clears and uploads together) sent in one session
MaxStatusRequests == 3

\* the interval fires: fetchStatus up to its await, apiService.getStatus()
PollSend ==
    /\ budget > 0
    /\ budget' = budget - 1
    /\ polls' = Append(polls, [stage |-> "sent", chunk_count |-> 0])
    /\ UNCHANGED <<expenseVars, serverStatus, toast, documents, isUploading,
                   uploadProgress, searchResults, isSearching, searchQuery,
                   messages, isTyping, responseLength, isClearing, url,
                   query, limit, message, clears, uploads, searches, chats,
                   timers, confirmAnswer, nextDocument, index, history,
                   assembly, statement>>

\* the server handles the poll's GET /status
PollServed(i) ==
    /\ polls[i].stage = "sent"
    /\ polls' = [polls EXCEPT ![i] = [stage |-> "served",
                                      chunk_count |-> IndexCount(index)]]
    /\ UNCHANGED <<expenseVars, serverStatus, toast, budget, documents,
                   isUploading, uploadProgress, searchResults, isSearching,
                   searchQuery, messages, isTyping, responseLength,
                   isClearing, url, query, limit, message, clears, uploads,
                   searches, chats, timers, confirmAnswer, nextDocument,
                   index, history, assembly, statement>>

\* the poll's getStatus resolved: setServerStatus(status)
PollResolved(i) ==
    /\ polls[i].stage = "served"
    /\ serverStatus' = [set |-> TRUE, chunk_count |-> polls[i].chunk_count]
    /\ polls' = Remove(polls, i)
    /\ UNCHANGED <<expenseVars, toast, budget, documents, isUploading,
                   uploadProgress, searchResults, isSearching, searchQuery,
                   messages, isTyping, responseLength, isClearing, url,
                   query, limit, message, clears, uploads, searches, chats,
                   timers, confirmAnswer, nextDocument, index, history,
                   assembly, statement>>

\* the poll's catch: setServerStatus({status: 'error', chunk_count: 0, ...})
PollFailed(i) ==
    /\ serverStatus' = [set |-> TRUE, chunk_count |-> 0]
    /\ polls' = Remove(polls, i)
    /\ UNCHANGED <<expenseVars, toast, budget, documents, isUploading,
                   uploadProgress, searchResults, isSearching, searchQuery,
                   messages, isTyping, responseLength, isClearing, url,
                   query, limit, message, clears, uploads, searches, chats,
                   timers, confirmAnswer, nextDocument, index, history,
                   assembly, statement>>

\* the server handles DELETE /documents/database: the index is cleared
ServerClear(i) ==
    /\ clears[i].stage = "clearing"
    /\ "served" \notin DOMAIN clears[i]
    /\ index' = <<>>
    /\ history' = <<>>
    /\ clears' = [clears EXCEPT ![i] = [stage |-> "clearing",
                                        cleared |-> FALSE, served |-> TRUE]]
    /\ UNCHANGED <<expenseVars, serverStatus, toast, budget, documents,
                   isUploading, uploadProgress, searchResults, isSearching,
                   searchQuery, messages, isTyping, responseLength,
                   isClearing, url, query, limit, message, uploads, searches,
                   chats, timers, confirmAnswer, nextDocument, assembly,
                   statement, polls>>

\* the server handles the GET /status sent after the clear
ServerClearStatus(i) ==
    /\ clears[i].stage = "status"
    /\ "chunk_count" \notin DOMAIN clears[i]
    /\ clears' = [clears EXCEPT ![i] = [stage |-> "status", cleared |-> TRUE,
                                        chunk_count |-> IndexCount(index)]]
    /\ UNCHANGED <<expenseVars, serverStatus, toast, budget, documents,
                   isUploading, uploadProgress, searchResults, isSearching,
                   searchQuery, messages, isTyping, responseLength,
                   isClearing, url, query, limit, message, uploads, searches,
                   chats, timers, confirmAnswer, nextDocument, index, history,
                   assembly, statement, polls>>

\* the server handles POST /documents/upload: the document's chunk is added
ServerUpload(i, c) ==
    /\ uploads[i].stage = "upload"
    /\ "served" \notin DOMAIN uploads[i]
    /\ Len(history) < MaxAdds
    /\ index' = IndexAdd(index, c)
    /\ history' = Append(history, c)
    /\ uploads' = [uploads EXCEPT ![i] = [kind |-> uploads[i].kind,
                                          stage |-> "upload", document |-> 0,
                                          chunks |-> 0, served |-> TRUE]]
    /\ UNCHANGED <<expenseVars, serverStatus, toast, budget, documents,
                   isUploading, uploadProgress, searchResults, isSearching,
                   searchQuery, messages, isTyping, responseLength,
                   isClearing, url, query, limit, message, clears, searches,
                   chats, timers, confirmAnswer, nextDocument, assembly,
                   statement, polls>>

\* the server handles the GET /status sent after the upload
ServerUploadStatus(i) ==
    /\ uploads[i].stage = "status"
    /\ "chunk_count" \notin DOMAIN uploads[i]
    /\ uploads' = [uploads EXCEPT ![i] =
                      [kind |-> uploads[i].kind, stage |-> "status",
                       document |-> uploads[i].document,
                       chunks |-> uploads[i].chunks,
                       chunk_count |-> IndexCount(index)]]
    /\ UNCHANGED <<expenseVars, serverStatus, toast, budget, documents,
                   isUploading, uploadProgress, searchResults, isSearching,
                   searchQuery, messages, isTyping, responseLength,
                   isClearing, url, query, limit, message, clears, searches,
                   chats, timers, confirmAnswer, nextDocument, index, history,
                   assembly, statement, polls>>

InitStatus ==
    /\ component = "pages"
    /\ transactions = <<>>
    /\ categories = <<>>
    /\ loading = FALSE
    /\ editingTransaction = 0
    /\ selectedCategory = ""
    /\ filterCategory = "all"
    /\ viewMode = "tiles"
    /\ selectedCategoryForView = ""
    /\ sortBy = "date"
    /\ serverStatus = NullStatus
    /\ analyses = <<>>
    /\ updates = <<>>
    /\ store = <<>>
    /\ toast = ""
    /\ budget = MaxStatusRequests
    /\ sumIn = <<>>
    /\ sumOut = NoResult
    /\ AppIdle
    /\ statement = <<>>

PollServes == \E i \in 1..Len(polls) : PollServed(i)

PollResolves == \E i \in 1..Len(polls) : PollResolved(i)

PollRejects == \E i \in 1..Len(polls) : PollFailed(i)

ClearServes == \E i \in 1..Len(clears) : ServerClear(i)

ClearResolvesServed ==
    \E i \in 1..Len(clears) :
        "served" \in DOMAIN clears[i] /\ ClearResolved(i)

ClearStatusServes == \E i \in 1..Len(clears) : ServerClearStatus(i)

ClearStatusResolvesServed ==
    \E i \in 1..Len(clears) :
        /\ "chunk_count" \in DOMAIN clears[i]
        /\ ClearStatusResolved(i, clears[i].chunk_count)

UploadServes ==
    \E i \in 1..Len(uploads) :
        ServerUpload(i, [id |-> nextDocument, text |-> "a"])

UploadResolvesServed ==
    \E i \in 1..Len(uploads) :
        "served" \in DOMAIN uploads[i] /\ UploadResolved(i, 1)

UploadStatusServes == \E i \in 1..Len(uploads) : ServerUploadStatus(i)

UploadStatusResolvesServed ==
    \E i \in 1..Len(uploads) :
        /\ "chunk_count" \in DOMAIN uploads[i]
        /\ UploadStatusResolved(i, uploads[i].chunk_count)

NextStatus ==
    \/ PollSend
    \/ PollServes
    \/ PollResolves
    \/ PollRejects
    \/ Clear
    \/ ClearServes
    \/ ClearResolvesServed
    \/ ClearStatusServes
    \/ ClearStatusResolvesServed
    \/ ClearRejects
    \/ FileUpload
    \/ UploadServes
    \/ UploadResolvesServed
    \/ UploadStatusServes
    \/ UploadStatusResolvesServed
    \/ UploadRejects
    \/ ProgressTimer

SpecStatus == InitStatus /\ [][NextStatus]_vars

(***************************************************************************)
(* SpecBusy: the five operations with a busy flag, every request settling  *)
(***************************************************************************)

NextBusy ==
    \/ StatusPoll
    \/ Poll
    \/ Refresh
    \/ AnalyzeResolve
    \/ AnalyzeReject
    \/ Clear
    \/ ClearResolves
    \/ ClearRejects
    \/ ClearStatusResolves
    \/ FileUpload
    \/ UploadResolves
    \/ UploadRejects
    \/ UploadStatusResolves
    \/ ProgressTimer
    \/ TypeQueryText
    \/ SearchClick
    \/ SearchResolves
    \/ SearchRejects
    \/ TypeMessage
    \/ SendMessage
    \/ ChatAnswers
    \/ ChatResolves
    \/ ChatRejects

\* every request under way is answered, or fails, in the end
RequestsSettle ==
    /\ WF_vars(AnalyzeResolve \/ AnalyzeReject)
    /\ WF_vars(ClearResolves \/ ClearRejects \/ ClearStatusResolves)
    /\ WF_vars(UploadResolves \/ UploadRejects \/ UploadStatusResolves)
    /\ WF_vars(SearchResolves \/ SearchRejects)
    /\ WF_vars(ChatAnswers)
    /\ WF_vars(ChatResolves \/ ChatRejects)

SpecBusy == InitApp /\ [][NextBusy]_vars /\ RequestsSettle

(***************************************************************************)
(* Properties                                                              *)
(***************************************************************************)

Range(s) == { s[i] : i \in 1..Len(s) }

RECURSIVE SumOver(_, _)
SumOver(txs, S) ==
    IF S = {} THEN 0
    ELSE LET k == CHOOSE x \in S : TRUE
         IN  Abs(txs[k].amount) + SumOver(txs, S \ {k})

DebitsOf(txs, c) ==
    { k \in 1..Len(txs) : txs[k].type = "debit" /\ txs[k].category = c }

DebitCategories(txs) ==
    { txs[k].category : k \in { j \in 1..Len(txs) : txs[j].type = "debit" } }

\* what the summary of txs must hold, order aside
IsDebitSummary(res, txs) ==
    /\ Len(res) = Cardinality(DebitCategories(txs))
    /\ { res[i].name : i \in 1..Len(res) } = DebitCategories(txs)
    /\ \A i \in 1..Len(res) :
          /\ res[i].total = SumOver(txs, DebitsOf(txs, res[i].name))
          /\ res[i].count = Cardinality(DebitsOf(txs, res[i].name))

\* C1: after a successful manual override, with nothing in flight, the
\* category summary in state is the summary of the current transaction list
\* (the list that holds the override), whatever the order of equal totals.
SummaryOfCurrentTransactions ==
    (toast = "Category updated successfully" /\ updates = <<>> /\ analyses = <<>>)
        => Range(categories) = Range(Summary(component, transactions))

\* C2: the summary, in either version of the component, groups the debit
\* transactions only: a category's total is the sum of the absolute amounts of
\* its debit transactions, its count their number, and credits add nothing.
DebitOnlySummary ==
    sumOut.done =>
        /\ IsDebitSummary(sumOut.pages, sumIn)
        /\ IsDebitSummary(sumOut.tiles, sumIn)

\* C3: every percentage computed for a category (the summary's percentage and
\* the tile bar width total / totalExpenses) is a number, and is 0 when the
\* grand total is 0; the summary of the empty list is empty.
PercentagesDefined ==
    sumOut.done =>
        /\ sumIn = <<>> => (sumOut.pages = <<>> /\ sumOut.tiles = <<>>)
        /\ \A i \in 1..Len(sumOut.tiles) :
              /\ sumOut.tiles[i].percentage.kind = "num"
              /\ SumAmounts(sumIn) = 0 => sumOut.tiles[i].percentage = Num(0)
        /\ \A i \in 1..Len(sumOut.pages) :
              /\ TileBarWidth(sumOut.pages, i).kind = "num"
              /\ totalExpenses(sumOut.pages) = 0
                    => TileBarWidth(sumOut.pages, i) = Num(0)

AlphaOrder ==
    <<"Bills & Utilities", "Entertainment", "Food & Dining", "Healthcare",
      "Income", "Miscellaneous", "Others", "Shopping", "Transfers",
      "Transportation", "Travel">>

AlphaRank(c) == CHOOSE i \in 1..Len(AlphaOrder) : AlphaOrder[i] = c

TotalDescThenAlpha(res) ==
    \A i, j \in 1..Len(res) :
        i < j => \/ res[i].total > res[j].total
                 \/ /\ res[i].total = res[j].total
                    /\ AlphaRank(res[i].name) < AlphaRank(res[j].name)

\* C4: the summary is ordered by total descending, categories of equal total in
\* alphabetical order of their names, whatever the order of the transactions.
SummaryOrdered ==
    sumOut.done =>
        /\ TotalDescThenAlpha(sumOut.pages)
        /\ TotalDescThenAlpha(sumOut.tiles)

NeedsReview(t) == t.category = "Miscellaneous" \/ t.confidence < ReviewThreshold

\* a step in which an update request settles with the success toast
OverrideSucceeds(i) ==
    /\ i \in 1..Len(updates)
    /\ updates' = Remove(updates, i)
    /\ toast' = "Category updated successfully"

\* a step in which an update request settles with the failure toast
OverrideRejected ==
    /\ Len(updates') < Len(updates)
    /\ toast' = "Failed to update category"

\* C5: a successful override leaves the transaction with the chosen category,
\* confidence 1.0 and manuallyOverridden set, so that with a category other
\* than Miscellaneous it no longer needs review.
OverrideSetsConfidence ==
    [][\A i \in 1..Len(updates) :
          (OverrideSucceeds(i) /\ HasId(transactions, updates[i].id)) =>
              LET t == TxOf(transactions', updates[i].id)
              IN  /\ t.category = updates[i].category
                  /\ t.confidence = 100
                  /\ t.category # "Miscellaneous" => ~NeedsReview(t)
                  /\ "manuallyOverridden" \in DOMAIN t
                  /\ t.manuallyOverridden]_vars

\* C6: a transaction the store holds as manually overridden when an analysis
\* is sent (no override of it under way then or sent since) comes back from
\* that analysis with the category of its override, and the list shown after
\* the reload holds it with that category.
OverriddenCategoryFrozen ==
    [][\A i \in 1..Len(analyses) :
          (/\ analyses[i].stage = "served"
           /\ analyses' = Remove(analyses, i)
           /\ toast' = "Expense analysis loaded successfully") =>
              \A p \in analyses[i].after :
                  /\ HasId(transactions', p[1])
                  /\ TxOf(transactions', p[1]).category = p[2]]_vars

\* C6 witness: an analysis sent after an override to Shopping has been run by
\* the server and is on its way back
ReanalysisAfterOverrideSeen ==
    \E i \in 1..Len(analyses) :
        /\ analyses[i].stage = "served"
        /\ \E p \in analyses[i].after :
              /\ p[2] = "Shopping"
              /\ TxOf(analyses[i].data, p[1]).category = "Shopping"
              /\ TxOf(analyses[i].data, p[1]).manuallyOverridden

\* C7: a rejected override changes neither the transaction list nor the
\* category summary.
RejectedOverrideChangesNothing ==
    [][OverrideRejected =>
          (transactions' = transactions /\ categories' = categories)]_vars

\* C7 witness: an override of a listed transaction has just been rejected
RejectedOverrideSeen ==
    /\ toast = "Failed to update category"
    /\ transactions # <<>>
    /\ editingTransaction # 0

\* C8: a successful override of T changes T's category and nothing else: every
\* other transaction is as before, and T keeps its other fields.
OverrideChangesOnlyTarget ==
    [][\A i \in 1..Len(updates) :
          OverrideSucceeds(i) =>
              /\ Len(transactions') = Len(transactions)
              /\ \A k \in 1..Len(transactions) :
                    LET t == transactions[k]
                        u == TxOf(transactions', t.id)
                    IN  /\ HasId(transactions', t.id)
                        /\ IF t.id = updates[i].id
                           THEN /\ u.category = updates[i].category
                                /\ u.date = t.date
                                /\ u.description = t.description
                                /\ u.amount = t.amount
                                /\ u.type = t.type
                           ELSE u = t]_vars

\* C8 witness: one of two transactions with the same description has been
\* overridden to Shopping, the other has not
OverrideOfOneOfTwoSeen ==
    /\ toast = "Category updated successfully"
    /\ Len(transactions) = 2
    /\ transactions[1].description = transactions[2].description
    /\ \E k \in 1..2 : transactions[k].category = "Shopping"
    /\ \E k \in 1..2 : transactions[k].category # "Shopping"

\* C9: every category sent in an update request is one of the ten of the enum.
SubmittedCategoryInEnum ==
    \A i \in 1..Len(updates) : updates[i].category \in Categories

\* C10: both versions of the component count as needing review exactly the
\* transactions that are Miscellaneous or below 0.7 confidence, and as
\* classified all the others, whatever the filter or the view.
SingleNeedsReviewDefinition ==
    (UiShown /\ ~loading) =>
        /\ NeedReviewCard =
              Cardinality({ k \in 1..Len(transactions) : NeedsReview(transactions[k]) })
        /\ ClassifiedCard =
              Cardinality({ k \in 1..Len(transactions) : ~NeedsReview(transactions[k]) })

\* a step in which the clear attempt i ends: its finally has run
ClearEnds(i) ==
    /\ i \in 1..Len(clears)
    /\ clears' = Remove(clears, i)
    /\ isClearing /\ ~isClearing'

\* C11: a clear attempt reported as success has emptied documents, search
\* results and chat messages and set the chunk count to 0; a clear attempt
\* reported as failure has cleared none of them.
ClearAtomic ==
    [][\A i \in 1..Len(clears) :
          ClearEnds(i) =>
              \/ toast' = ClearSuccess /\ clears[i].cleared
              \/ toast' = ClearFailure /\ ~clears[i].cleared]_vars

\* C12: a clear request is sent only in a step in which window.confirm
\* answered yes, and a declined confirmation changes neither the requests nor
\* documents, search results, chat messages, server status or isClearing.
ClearOnlyWhenConfirmed ==
    [][/\ Len(clears') > Len(clears) => confirmAnswer' = "yes"
       /\ (confirmAnswer' = "no" /\ confirmAnswer # "no") =>
             UNCHANGED <<clears, documents, searchResults, messages,
                         serverStatus, isClearing, budget>>]_vars

\* C12 witness: the confirmation was declined with a document in the list, a
\* chunk count above 0 and no clear request sent
ClearDeclinedSeen ==
    /\ confirmAnswer = "no"
    /\ documents # <<>>
    /\ serverStatus.chunk_count > 0
    /\ clears = <<>>
    /\ ~isClearing

\* C13: while a clear request is in flight, no upload request and no search
\* request is in flight.
ClearExclusive ==
    (\E i \in 1..Len(clears) : clears[i].stage = "clearing") =>
        /\ \A j \in 1..Len(uploads) : uploads[j].stage # "upload"
        /\ searches = <<>>

\* a step in which the upload i ends: its finally has run
UploadEnds(i) ==
    /\ i \in 1..Len(uploads)
    /\ uploads' = Remove(uploads, i)

UploadReportedFailed(i) ==
    toast' = IF uploads[i].kind = "file" THEN UploadFailure
             ELSE "Failed to process URL"

UploadReportedSuccessful(i) ==
    toast' = IF uploads[i].kind = "file" THEN UploadSuccess
             ELSE "Successfully processed URL"

\* C14: an upload reported as failed has added no document to the list, and
\* an upload that added a document is reported as successful.
FailedUploadRecordsNothing ==
    [][\A i \in 1..Len(uploads) :
          UploadEnds(i) =>
              /\ UploadReportedFailed(i) => uploads[i].document = 0
              /\ uploads[i].document # 0 => UploadReportedSuccessful(i)]_vars

\* a step in which the upload request of i is answered with a document
UploadAnswered(i) ==
    /\ i \in 1..Len(uploads)
    /\ Len(uploads') = Len(uploads)
    /\ uploads[i].stage = "upload"
    /\ uploads'[i].stage = "status"

\* C15: a successful ingest response appends exactly one entry, with the
\* returned document id and chunk count, at the end of the documents list;
\* any other change of the list empties it (clearDocuments).
DocumentsAppendOnly ==
    [][/\ \A i \in 1..Len(uploads) :
             UploadAnswered(i) =>
                 documents' = Append(documents,
                                     [id |-> uploads'[i].document,
                                      filename |-> uploads[i].kind,
                                      chunks_count |-> uploads'[i].chunks])
       /\ documents' # documents =>
             \/ documents' = <<>>
             \/ \E i \in 1..Len(uploads) : UploadAnswered(i)]_vars

\* C15 witness: two uploads have completed, one by URL and then one of a file
TwoDocumentsSeen ==
    /\ Len(documents) = 2
    /\ documents[1].filename = "url"
    /\ documents[2].filename = "file"
    /\ documents[1].id # documents[2].id

ErrorMessage == [role |-> "assistant", content |-> "error"]

\* C16: when the backend call of a chat request has failed, the next step of
\* that request appends one assistant error message, ends the request
\* without sending another, and leaves isTyping false.
ChatFailureSurfaced ==
    [][\A i \in 1..Len(chats) :
          (chats[i].outcome = "failed" /\ chats' # chats) =>
              /\ messages' = Append(messages, ErrorMessage)
              /\ chats' = Remove(chats, i)
              /\ ~isTyping'
              /\ budget' = budget]_vars

\* C16 witness: a failed chat request has ended with the user's message and
\* one error message in the conversation
ChatFailureSeen ==
    /\ chats = <<>>
    /\ ~isTyping
    /\ Len(messages) = 2
    /\ messages[1].role = "user"
    /\ messages[2] = ErrorMessage

\* C17: a chat request carries the response length selected in the store when
\* it is sent, one of brief, balanced and detailed, and sending changes no
\* selection.
ResponseLengthPassedThrough ==
    [][Len(chats') > Len(chats) =>
          /\ chats'[Len(chats')].response_length = responseLength
          /\ chats'[Len(chats')].response_length \in ResponseLengths
          /\ responseLength' = responseLength]_vars

\* C17 witness: a request sent after the user selected brief
BriefRequestSeen ==
    \E i \in 1..Len(chats) :
        chats[i].response_length = "brief" /\ responseLength = "brief"

\* C18: every search request has a limit of 3, 5 or 10 and a query with a
\* character that is not white space.
SearchRequestValid ==
    \A i \in 1..Len(searches) :
        /\ searches[i].limit \in {3, 5, 10}
        /\ searches[i].limit > 0
        /\ \E k \in 1..Len(searches[i].query) : searches[i].query[k] # Blank

\* C18 witness: a search for a typed query with limit 10 is in flight, the
\* input holding a quick search's query
SearchRequestSeen ==
    \E i \in 1..Len(searches) :
        /\ searches[i].limit = 10
        /\ searches[i].query = <<"q">>
        /\ query \in quickSearches

\* the place of a chunk id in the index
PlaceOf(idx, id) == CHOOSE k \in 1..Len(idx) : idx[k].id = id

\* hit x must be ranked before hit y: higher score, or equal score and
\* inserted earlier
RanksBefore(idx, x, y) ==
    \/ x.similarity_score > y.similarity_score
    \/ /\ x.similarity_score = y.similarity_score
       /\ PlaceOf(idx, x.id) < PlaceOf(idx, y.id)

\* what a search of k hits must return from idx, said without the ranking
IsTopK(res, idx, k) ==
    /\ Len(res) = (IF k < Len(idx) THEN k ELSE Len(idx))
    /\ \A n \in 1..Len(res) :
          \E p \in 1..Len(idx) : res[n] = SearchHit(idx[p])
    /\ \A m, n \in 1..Len(res) : m < n => RanksBefore(idx, res[m], res[n])
    /\ \A p \in 1..Len(idx) :
          (\A n \in 1..Len(res) : res[n].id # idx[p].id) =>
              \A n \in 1..Len(res) : RanksBefore(idx, res[n], SearchHit(idx[p]))

\* C19: the answer to a search holds the k best hits of the index (all of
\* them if there are fewer), by score descending and, at equal score, in
\* insertion order, which fixes the answer for an unchanged index; the page
\* stores the answer as it is and shows it with the ranks 1..n.
SearchRankedAndShownInOrder ==
    [][/\ \A i \in 1..Len(searches) :
             (Len(searches') = Len(searches) /\ searches[i].stage = "sent"
                /\ searches'[i].stage = "served") =>
                 IsTopK(searches'[i].results, index, searches[i].limit)
       /\ \A i \in 1..Len(searches) :
             (searches[i].stage = "served" /\ searches' = Remove(searches, i)) =>
                 /\ searchResults' = searches[i].results
                 /\ Len(ResultCards') = Len(searches[i].results)
                 /\ \A n \in 1..Len(ResultCards') :
                       /\ ResultCards'[n].rank = n
                       /\ ResultCards'[n].text = searches[i].results[n].text
                       /\ ResultCards'[n].similarity_score =
                             searches[i].results[n].similarity_score]_vars

\* C19 witness: a search of limit 3 against four chunks is shown: three hits,
\* two of equal score in insertion order before one of a lower score
TopThreeOfFourShown ==
    /\ Len(index) = 4
    /\ searches = <<>>
    /\ Len(searchResults) = 3
    /\ searchResults = IndexSearch(index, 3)
    /\ searchResults[1].similarity_score = searchResults[2].similarity_score
    /\ searchResults[2].similarity_score > searchResults[3].similarity_score
    /\ index[1].text = "b"

IdsAdded == { history[n].id : n \in 1..Len(history) }

LatestAdd(id) ==
    history[CHOOSE n \in 1..Len(history) :
               /\ history[n].id = id
               /\ \A m \in (n + 1)..Len(history) : history[m].id # id]

\* C20: count() is the number of distinct chunk ids added since the last
\* clear, and the chunk stored for an id is the one of the latest add of it.
AddOverwrites ==
    /\ IndexCount(index) = Cardinality(IdsAdded)
    /\ { index[k].id : k \in 1..Len(index) } = IdsAdded
    /\ \A k \in 1..Len(index) : index[k] = LatestAdd(index[k].id)

\* C20 witness: an id was added twice with different payloads, another once
ChunkAddedTwiceSeen ==
    /\ Len(history) = 3
    /\ history[1].id = history[3].id
    /\ history[1].text # history[3].text
    /\ history[2].id # history[1].id
    /\ IndexCount(index) = 2

\* the texts of the first n hits, one after the other
RECURSIVE Joined(_, _)
Joined(hits, n) ==
    IF n = 0 THEN <<>> ELSE Joined(hits, n - 1) \o hits[n].text

\* C21: what assemble returns is made of a prefix of the hits in rank order:
\* the context is the texts of the first n hits and is no longer than the
\* budget, hit n + 1 (if any) would have exceeded the budget, so the dropped
\* hits are a lowest-ranked suffix whatever a later hit's size, there is one
\* citation for each included hit, and no hits give an empty context and no
\* citations.
AssemblerKeepsRankedPrefix ==
    assembly.done =>
        /\ Len(assembly.contextText) <= assembly.tokenBudget
        /\ \E n \in 0..Len(assembly.hits) :
              /\ assembly.contextText = Joined(assembly.hits, n)
              /\ n < Len(assembly.hits) =>
                     Len(Joined(assembly.hits, n + 1)) > assembly.tokenBudget
              /\ Len(assembly.citations) = n
              /\ \A k \in 1..n : assembly.citations[k].id = assembly.hits[k].id
        /\ assembly.hits = <<>> =>
              (assembly.contextText = <<>> /\ assembly.citations = <<>>)

\* C21 witness: of three hits the second did not fit and the third, which
\* would have fitted, was dropped with it
LaterFittingHitDropped ==
    /\ assembly.done
    /\ Len(assembly.hits) = 3
    /\ Len(assembly.citations) = 1
    /\ Len(assembly.contextText) + Len(assembly.hits[2].text)
          > assembly.tokenBudget
    /\ Len(assembly.contextText) + Len(assembly.hits[3].text)
          <= assembly.tokenBudget

NoRepeatedKey(txs) ==
    \A j, k \in 1..Len(txs) : j < k => RowKey(txs[j]) # RowKey(txs[k])

\* C22: the extractor's output holds exactly one transaction for each
\* (date, normalized description, amount) of the statement, and no list the
\* server returns or the client holds has two transactions of one key.
ExtractorDiscardsRepeats ==
    /\ NoRepeatedKey(store)
    /\ Len(store) = Cardinality({ RowKey(statement[k]) : k \in 1..Len(statement) })
    /\ \A k \in 1..Len(statement) :
          \E j \in 1..Len(store) : RowKey(store[j]) = RowKey(statement[k])
    /\ \A i \in 1..Len(analyses) : NoRepeatedKey(analyses[i].data)
    /\ NoRepeatedKey(transactions)

\* C22 witness: a statement of two rows that differ only in how the
\* description was read has been analysed, and the client holds one
\* transaction, that of the first row
RepeatedRowLoadedOnce ==
    /\ Len(statement) = 2
    /\ statement[1].description # statement[2].description
    /\ RowKey(statement[1]) = RowKey(statement[2])
    /\ Len(transactions) = 1
    /\ transactions[1].description = statement[1].description

\* C23: a click on a quick-search button sends exactly one search request
\* with the button's query and sets searchQuery to it, whatever the text box
\* held before.
QuickSearchSendsItsQuery ==
    [][(query' \in quickSearches /\ query \notin quickSearches) =>
          /\ Len(searches') = Len(searches) + 1
          /\ searches'[Len(searches')].query = query'
          /\ searchQuery' = query']_vars

\* C24: isUploading is true whenever an upload request is still in flight.
UploadingWhileInFlight ==
    (\E i \in 1..Len(uploads) : uploads[i].stage = "upload") => isUploading

\* C25: every assistant message in the conversation comes directly after a
\* user message (the one it answers); in particular a conversation cleared
\* after a question was sent does not receive that question's answer.
ConversationWellPaired ==
    \A k \in 1..Len(messages) :
        messages[k].role = "assistant" =>
            (k > 1 /\ messages[k - 1].role = "user")

\* C26: at most one expense-analysis request is in flight at any time.
OneAnalysisInFlight == Len(analyses) <= 1

\* C27: once a clear has been reported successful, and as long as no upload
\* has been handled since (the server's index is empty and no upload is
\* under way), the chunk count held in serverStatus is 0.
ClearedCountStaysZero ==
    (toast = ClearSuccess /\ index = <<>> /\ uploads = <<>>) =>
        serverStatus.chunk_count = 0

\* C28: if every request settles, each busy flag that was set is released:
\* isSearching, isTyping, isUploading, isClearing and loading each return to
\* false, on the success path and on the failure path.
BusyFlagsReleased ==
    /\ isSearching ~> ~isSearching
    /\ isTyping ~> ~isTyping
    /\ isUploading ~> ~isUploading
    /\ isClearing ~> ~isClearing
    /\ loading ~> ~loading

\* C28 witness: a chat send and an analysis have both failed and their
\* flags are released
FlagsReleasedAfterFailures ==
    /\ budget = 0
    /\ messages = <<[role |-> "user", content |-> "question"], ErrorMessage>>
    /\ ~isTyping
    /\ toast = "Failed to load expense analysis"
    /\ ~loading
    /\ analyses = <<>>

\* the fraction lies in [0, 100]
IsPercent(x) == x.kind = "num" /\ x.n >= 0 /\ x.n <= 100 * x.d

\* the exact sum of the fractions pct(1), ..., pct(n)
RECURSIVE FracSum(_, _)
FracSum(pct(_), n) ==
    IF n = 0 THEN Num(0)
    ELSE LET rest == FracSum(pct, n - 1)
         IN  Frac(rest.n * pct(n).d + pct(n).n * rest.d, rest.d * pct(n).d)

\* C29: for a transaction list whose grand total is greater than 0, each
\* category's percentage (the summary's percentage field, and the tile bar
\* width total / totalExpenses) lies in [0, 100], and the percentages of all
\* categories sum to 100.
PercentagesWithinHundred ==
    sumOut.done =>
        /\ SumAmounts(sumIn) > 0 =>
              LET pct(i) == sumOut.tiles[i].percentage
              IN  /\ \A i \in 1..Len(sumOut.tiles) : IsPercent(pct(i))
                  /\ FracSum(pct, Len(sumOut.tiles)) = Num(100)
        /\ totalExpenses(sumOut.pages) > 0 =>
              LET width(i) == TileBarWidth(sumOut.pages, i)
              IN  /\ \A i \in 1..Len(sumOut.pages) : IsPercent(width(i))
                  /\ FracSum(width, Len(sumOut.pages)) = Num(100)

\* a step that ends an analysis request
AnalysisEnds == Len(analyses') < Len(analyses)

\* cats is the summary of txs: its entries are those computed from txs, by
\* total descending (the order among equal totals follows the order of the
\* list, which the page's sort may change after it is stored)
IsSummaryOf(cats, txs) ==
    /\ Len(cats) = Len(Summary(component, txs))
    /\ Range(cats) = Range(Summary(component, txs))
    /\ \A j, k \in 1..Len(cats) : j < k => cats[j].total >= cats[k].total

\* C30: a failed analysis leaves the transactions and the category summary
\* as they were; a successful one replaces both, the summary being that of
\* the transaction list stored.
AnalysisReplacesBothOrNeither ==
    [][AnalysisEnds =>
          /\ toast' = "Failed to load expense analysis" =>
                (transactions' = transactions /\ categories' = categories)
          /\ toast' = "Expense analysis loaded successfully" =>
                IsSummaryOf(categories', transactions')]_vars

\* C30 witness: an analysis failed after one that loaded two transactions,
\* which are still held with their summary
FailedAnalysisAfterLoadSeen ==
    /\ toast = "Failed to load expense analysis"
    /\ analyses = <<>>
    /\ Len(transactions) = 2
    /\ categories # <<>>
    /\ IsSummaryOf(categories, transactions)

====
